---- MODULE Spec2Model ----
(***************************************************************************)
(* The ledger of pismo-task: the accounts and transactions tables of the   *)
(* PostgreSQL store, the account service (internal/account) and the        *)
(* transaction service (internal/transaction).  Every SQL statement is one *)
(* atomic step of the store; a CreateTransaction request is the sequence   *)
(* SELECT, UPDATE, INSERT of its handler, and concurrent requests          *)
(* interleave between their statements.  Amounts and balances are counted  *)
(* in the store's unit, the cent of DECIMAL(15,2).                         *)
(***************************************************************************)
EXTENDS Integers, FiniteSets, Sequences, TLC

\* ---------------------------------------------------------------- bounds
MaxAccounts == 2     \* account ids uuid.New() hands out in one behaviour
MaxTx == 2           \* transaction ids uuid.New() hands out in one behaviour
MaxBalance == 2      \* capacity of the balance column (DECIMAL(15,2)), scaled down
MaxAmount == 1       \* request amounts range over -MaxAmount..MaxAmount
ScenarioMaxBalance == 1000000   \* capacity of the balance column in SpecScenario, in cents
ScenarioMaxTx == 3              \* transaction ids uuid.New() hands out in SpecScenario
HistoryMaxTx == 3               \* transaction ids uuid.New() hands out in SpecHistory
MaxTime == 1                    \* seconds the clock advances in SpecHistory

\* ---------------------------------------------------------------- domains
NoId == 0                                   \* the empty string as an id
AccountIds == 1..MaxAccounts
TxIds == 1..MaxTx
Handlers == {1, 2}                          \* concurrently served gRPC requests
validOperations == {"CASH_PURCHASE", "INSTALLMENT_PURCHASE", "WITHDRAWAL", "PAYMENT"}
DebitOperations == {"CASH_PURCHASE", "INSTALLMENT_PURCHASE", "WITHDRAWAL"}
OperationInputs == validOperations \cup {"", "REFUND"}
validAccountTypes == {"CHECKING", "SAVINGS", "CREDIT"}
AccountTypeInputs == {"", "CHECKING", "CREDIT", "PREMIUM"}
DocumentInputs == {"", "111", "222"}
DescriptionInputs == {"", "rent"}
Amounts == (-MaxAmount)..MaxAmount
InitialBalances == (-1)..(MaxBalance - 1)
LimitInputs == {-1, 0, 1, 2, 100, 101, 150}
OffsetInputs == {-1, 0, 1}

VARIABLES
    accounts,       \* table accounts: id -> row
    transactions,   \* table transactions: set of rows
    initial,        \* history: id -> the balance CreateAccount stored
    nextAccId,      \* next fresh account uuid
    nextTxId,       \* next fresh transaction uuid
    now,            \* time.Now().Unix()
    calls,          \* handler -> the CreateTransaction request it is serving
    splitWrite,     \* history: some INSERT failed after its request's UPDATE changed a balance
    reply,          \* the request the account service or a read handler has served, and its response
    limits          \* balance: capacity of the numeric columns; tx: transaction uuids at hand

\* everything but the response in flight
ledger == <<accounts, transactions, initial, nextAccId, nextTxId, now, calls, splitWrite, limits>>

vars == <<accounts, transactions, initial, nextAccId, nextTxId, now, calls, splitWrite,
          reply, limits>>

\* ---------------------------------------------------------------- helpers
RECURSIVE SumAmounts(_)
SumAmounts(rows) ==
    IF rows = {} THEN 0
    ELSE LET r == CHOOSE x \in rows : TRUE
         IN r.amount + SumAmounts(rows \ {r})

RowsOf(id) == {t \in transactions : t.account_id = id}

NoTransaction == [id |-> NoId, account_id |-> NoId, operation_type |-> "", amount |-> 0,
                  description |-> "", created_at |-> 0, status |-> ""]

NoAccount == [id |-> NoId, document_number |-> "", account_type |-> "", balance |-> 0,
              created_at |-> 0, updated_at |-> 0]

IdleCall == [pc |-> "idle", rpc |-> "", req |-> [account_id |-> NoId, operation_type |-> "",
             amount |-> 0, description |-> ""], account |-> NoAccount, amount |-> 0,
             dbTransaction |-> NoTransaction, err |-> "nil", applied |-> FALSE,
             overtook |-> {},
             resp |-> [transaction |-> NoTransaction, error |-> ""]]

\* no account-service or read request is being answered
NoReply == [rpc |-> ""]

GetCurrentTimestamp == now

\* mutant: the CHECK lets the balance go one below zero
BalanceCheckBelowZero(balance) == balance >= -1

\* ---------------------------------------------------------------- the store
\* mutant: the accounts table without its CHECK
BalanceCheckMissing(balance) == TRUE

\* CHECK (balance >= 0)
BalanceCheck(balance) == balance >= 0

\* the capacity of DECIMAL(15,2)
BalanceFits(balance) == balance <= limits.balance /\ balance >= -limits.balance

\* mutant: the accounts table without UNIQUE on document_number
InsertAccountErrorWithoutUnique(row) ==
    IF row.id \in DOMAIN accounts THEN "unique_violation"
    ELSE IF row.account_type \notin validAccountTypes THEN "check_violation"
    ELSE IF ~BalanceFits(row.balance) THEN "numeric_value_out_of_range"
    ELSE IF ~BalanceCheck(row.balance) THEN "check_violation"
    ELSE "nil"

\* INSERT INTO accounts: "nil" or the constraint it violates
InsertAccountError(row) ==
    IF row.id \in DOMAIN accounts THEN "unique_violation"
    ELSE IF \E a \in DOMAIN accounts : accounts[a].document_number = row.document_number
         THEN "unique_violation"
    ELSE IF row.account_type \notin validAccountTypes THEN "check_violation"
    ELSE IF ~BalanceFits(row.balance) THEN "numeric_value_out_of_range"
    ELSE IF ~BalanceCheck(row.balance) THEN "check_violation"
    ELSE "nil"

\* UPDATE accounts SET balance = balance + $1, updated_at = $2 WHERE id = $3
UpdateBalanceError(id, amount) ==
    IF id \notin DOMAIN accounts THEN "nil"
    ELSE IF ~BalanceFits(accounts[id].balance + amount) THEN "numeric_value_out_of_range"
    ELSE IF ~BalanceCheck(accounts[id].balance + amount) THEN "check_violation"
    ELSE "nil"

\* mutant: the UPDATE's WHERE clause matches no row
UpdateBalanceNoRows(id, amount, ts) == accounts

UpdateBalanceRows(id, amount, ts) ==
    IF id \in DOMAIN accounts
    THEN [accounts EXCEPT ![id].balance = @ + amount, ![id].updated_at = ts]
    ELSE accounts

\* mutant: the transactions table without its foreign key
InsertTransactionErrorWithoutForeignKey(row) ==
    IF \E t \in transactions : t.id = row.id THEN "unique_violation"
    ELSE IF row.operation_type \notin validOperations THEN "check_violation"
    ELSE IF row.status \notin {"PENDING", "COMPLETED", "FAILED", "CANCELLED"} THEN "check_violation"
    ELSE IF ~BalanceFits(row.amount) THEN "numeric_value_out_of_range"
    ELSE "nil"

\* INSERT INTO transactions: "nil" or the constraint it violates
InsertTransactionError(row) ==
    IF \E t \in transactions : t.id = row.id THEN "unique_violation"
    ELSE IF row.operation_type \notin validOperations THEN "check_violation"
    ELSE IF row.status \notin {"PENDING", "COMPLETED", "FAILED", "CANCELLED"} THEN "check_violation"
    ELSE IF ~BalanceFits(row.amount) THEN "numeric_value_out_of_range"
    ELSE IF row.account_id \notin DOMAIN accounts THEN "foreign_key_violation"
    ELSE "nil"

\* mutant: the conversion drops the initial balance
ConvertIgnoringInitialBalance(req) ==
    [id |-> NoId, document_number |-> req.document_number, account_type |-> req.account_type,
     balance |-> 0, created_at |-> GetCurrentTimestamp,
     updated_at |-> GetCurrentTimestamp]

\* ---------------------------------------------------------------- account service
ConvertCreateAccountRequestToAccount(req) ==
    [id |-> NoId, document_number |-> req.document_number, account_type |-> req.account_type,
     balance |-> req.initial_balance, created_at |-> GetCurrentTimestamp,
     updated_at |-> GetCurrentTimestamp]

CreateAccount(req, fault) ==
    IF req.document_number = "" \/ req.account_type = ""
    THEN UNCHANGED ledger
    ELSE /\ nextAccId <= MaxAccounts
         /\ LET dbAccount == [ConvertCreateAccountRequestToAccount(req) EXCEPT !.id = nextAccId]
                err == IF fault THEN "ErrConnDone" ELSE InsertAccountError(dbAccount)
            IN /\ nextAccId' = nextAccId + 1
               /\ IF err # "nil"
                  THEN UNCHANGED <<accounts, initial>>
                  ELSE /\ accounts' = [a \in DOMAIN accounts \cup {dbAccount.id} |->
                                          IF a = dbAccount.id THEN dbAccount ELSE accounts[a]]
                       /\ initial' = [a \in DOMAIN accounts \cup {dbAccount.id} |->
                                          IF a = dbAccount.id THEN dbAccount.balance ELSE initial[a]]
         /\ UNCHANGED <<transactions, nextTxId, now, calls, splitWrite, limits>>

\* mutant: the UPDATE writes the supplied values as they are, empty ones too
UpdateAccountRowOverwriting(row, req, ts) ==
    [row EXCEPT !.document_number = req.document_number,
                !.account_type = req.account_type,
                !.updated_at = ts]

\* mutant: the UPDATE of an account's fields also clears its balance
UpdateAccountRowClearingBalance(row, req, ts) ==
    [row EXCEPT !.document_number = IF req.document_number = "" THEN @ ELSE req.document_number,
                !.account_type = IF req.account_type = "" THEN @ ELSE req.account_type,
                !.balance = 0,
                !.updated_at = ts]

\* UPDATE accounts SET document_number = COALESCE(NULLIF($2,''), document_number), ...
UpdateAccountRow(row, req, ts) ==
    [row EXCEPT !.document_number = IF req.document_number = "" THEN @ ELSE req.document_number,
                !.account_type = IF req.account_type = "" THEN @ ELSE req.account_type,
                !.updated_at = ts]

UpdateAccountError(req) ==
    IF req.id \notin DOMAIN accounts THEN "nil"
    ELSE LET row == UpdateAccountRow(accounts[req.id], req, GetCurrentTimestamp)
         IN IF \E a \in DOMAIN accounts \ {req.id} :
                   accounts[a].document_number = row.document_number
            THEN "unique_violation"
            ELSE IF row.account_type \notin validAccountTypes THEN "check_violation"
            ELSE "nil"

UpdateAccount(req, fault) ==
    IF req.id = NoId
    THEN UNCHANGED ledger
    ELSE LET err == IF fault THEN "ErrConnDone" ELSE UpdateAccountError(req)
         IN /\ accounts' = IF err = "nil" /\ req.id \in DOMAIN accounts
                           THEN [accounts EXCEPT
                                   ![req.id] = UpdateAccountRow(@, req, GetCurrentTimestamp)]
                           ELSE accounts
            /\ UNCHANGED <<transactions, initial, nextAccId, nextTxId, now, calls, splitWrite,
                           limits>>

\* mutant: the delete empties the transactions table
DeleteAccountClearingLedger(req, fault) ==
    IF req.id = NoId \/ fault \/ req.id \notin DOMAIN accounts
    THEN UNCHANGED ledger
    ELSE /\ accounts' = [a \in DOMAIN accounts \ {req.id} |-> accounts[a]]
         /\ initial' = [a \in DOMAIN accounts \ {req.id} |-> initial[a]]
         /\ transactions' = {}
         /\ UNCHANGED <<nextAccId, nextTxId, now, calls, splitWrite, limits>>

\* mutant: the account's transactions stay behind
DeleteAccountWithoutCascade(req, fault) ==
    IF req.id = NoId \/ fault \/ req.id \notin DOMAIN accounts
    THEN UNCHANGED ledger
    ELSE /\ accounts' = [a \in DOMAIN accounts \ {req.id} |-> accounts[a]]
         /\ initial' = [a \in DOMAIN accounts \ {req.id} |-> initial[a]]
         /\ UNCHANGED <<transactions, nextAccId, nextTxId, now, calls, splitWrite, limits>>

\* DELETE FROM accounts WHERE id = $1, with ON DELETE CASCADE on transactions.account_id
DeleteAccount(req, fault) ==
    IF req.id = NoId \/ fault \/ req.id \notin DOMAIN accounts
    THEN UNCHANGED ledger
    ELSE /\ accounts' = [a \in DOMAIN accounts \ {req.id} |-> accounts[a]]
         /\ initial' = [a \in DOMAIN accounts \ {req.id} |-> initial[a]]
         /\ transactions' = {t \in transactions : t.account_id # req.id}
         /\ UNCHANGED <<nextAccId, nextTxId, now, calls, splitWrite, limits>>

\* ---------------------------------------------------------------- transaction service
\* mutant: the conversion forgets the description
ConvertForgettingDescription(req) ==
    [id |-> NoId, account_id |-> req.account_id, operation_type |-> req.operation_type,
     amount |-> req.amount, description |-> "",
     created_at |-> GetCurrentTimestamp, status |-> "PENDING"]

ConvertCreateTransactionRequestToTransaction(req) ==
    [id |-> NoId, account_id |-> req.account_id, operation_type |-> req.operation_type,
     amount |-> req.amount, description |-> req.description,
     created_at |-> GetCurrentTimestamp, status |-> "PENDING"]

ConvertTransactionToProto(dbTransaction) ==
    [id |-> dbTransaction.id, account_id |-> dbTransaction.account_id,
     operation_type |-> dbTransaction.operation_type, amount |-> dbTransaction.amount,
     description |-> dbTransaction.description, created_at |-> dbTransaction.created_at,
     status |-> dbTransaction.status]

\* mutant: the debit amount is negated whatever its sign
DebitAmountNegated(amount) == -amount

\* mutant: the debit amount is made positive
DebitAmountAbsolute(amount) == IF amount < 0 THEN -amount ELSE amount

\* mutant: the debit amount is used with the sign the caller gave it
DebitAmountAsGiven(amount) == amount

\* amount := req.Amount; if amount >= 0 { amount = -amount }
DebitAmount(amount) == IF amount >= 0 THEN -amount ELSE amount

\* mutant: the sufficiency check is off by one
InsufficientOffByOne(balance, amount) == balance + amount < -1

\* account.Balance+amount < 0
Insufficient(balance, amount) == balance + amount < 0

\* &pb.ProcessPaymentResponse{Transaction: resp.Transaction, Error: resp.Error}
ProcessPaymentResponse(resp) == [transaction |-> resp.transaction, error |-> resp.error]

\* what the caller of rpc receives when CreateTransaction returns resp
Response(rpc, resp) == IF rpc = "ProcessPayment" THEN ProcessPaymentResponse(resp) ELSE resp

Failed(call, error, err) ==
    [call EXCEPT !.pc = "done", !.err = err,
                 !.resp = Response(call.rpc, [transaction |-> NoTransaction, error |-> error])]

\* mutant: sql.ErrNoRows is dropped and the zero-valued account is used
QueryAccountIgnoringNoRows(id, fault) ==
    IF fault THEN [err |-> "ErrConnDone", account |-> NoAccount]
    ELSE IF id \notin DOMAIN accounts THEN [err |-> "nil", account |-> NoAccount]
    ELSE [err |-> "nil", account |-> accounts[id]]

\* SELECT ... FROM accounts WHERE id = $1, scanned into account
QueryAccount(id, fault) ==
    IF fault THEN [err |-> "ErrConnDone", account |-> NoAccount]
    ELSE IF id \notin DOMAIN accounts THEN [err |-> "ErrNoRows", account |-> NoAccount]
    ELSE [err |-> "nil", account |-> accounts[id]]

\* mutant: a zero payment is let through
Negative(amount) == amount < 0

\* req.Amount <= 0
NotPositive(amount) == amount <= 0

\* mutant: the account is looked up before the operation type is validated
LookupBeforeValidation(rpc, req, fault) ==
    LET call == [IdleCall EXCEPT !.rpc = rpc, !.req = req]
    IN IF req.account_id = NoId \/ req.operation_type = ""
       THEN Failed(call, "missing required fields", "nil")
       ELSE LET row == QueryAccount(req.account_id, fault)
            IN IF row.err = "ErrNoRows"
               THEN Failed(call, "account not found", row.err)
               ELSE IF row.err # "nil"
               THEN Failed(call, "database error", row.err)
               ELSE IF req.operation_type \notin validOperations
               THEN Failed(call, "invalid operation type", "nil")
               ELSE LET account == row.account
                        dbTransaction == [ConvertCreateTransactionRequestToTransaction(req)
                                            EXCEPT !.id = nextTxId]
                        read == [call EXCEPT !.account = account,
                                             !.dbTransaction = dbTransaction]
                    IN IF req.operation_type = "PAYMENT"
                       THEN IF NotPositive(req.amount)
                            THEN Failed(read, "payment amount must be positive", "nil")
                            ELSE [read EXCEPT !.pc = "update", !.amount = req.amount]
                       ELSE LET amount == DebitAmount(req.amount)
                            IN IF Insufficient(account.balance, amount)
                               THEN Failed(read, "insufficient balance", "nil")
                               ELSE [read EXCEPT !.pc = "update", !.amount = amount]

\* CreateTransaction up to its first write: the validations, the account lookup and
\* the amount checks.
Lookup(rpc, req, fault) ==
    LET call == [IdleCall EXCEPT !.rpc = rpc, !.req = req]
    IN IF req.account_id = NoId \/ req.operation_type = ""
       THEN Failed(call, "missing required fields", "nil")
       ELSE IF req.operation_type \notin validOperations
       THEN Failed(call, "invalid operation type", "nil")
       ELSE LET row == QueryAccount(req.account_id, fault)
            IN IF row.err = "ErrNoRows"
               THEN Failed(call, "account not found", row.err)
               ELSE IF row.err # "nil"
               THEN Failed(call, "database error", row.err)
               ELSE LET account == row.account
                        dbTransaction == [ConvertCreateTransactionRequestToTransaction(req)
                                            EXCEPT !.id = nextTxId]
                        read == [call EXCEPT !.account = account,
                                             !.dbTransaction = dbTransaction]
                    IN IF req.operation_type = "PAYMENT"
                       THEN IF NotPositive(req.amount)
                            THEN Failed(read, "payment amount must be positive", "nil")
                            ELSE [read EXCEPT !.pc = "update", !.amount = req.amount]
                       ELSE LET amount == DebitAmount(req.amount)
                            IN IF Insufficient(account.balance, amount)
                               THEN Failed(read, "insufficient balance", "nil")
                               ELSE [read EXCEPT !.pc = "update", !.amount = amount]

Begin(h, rpc, req, fault) ==
    /\ calls[h].pc = "idle"
    /\ nextTxId <= limits.tx
    /\ LET call == Lookup(rpc, req, fault)
       IN /\ calls' = [calls EXCEPT ![h] = call]
          /\ nextTxId' = IF call.dbTransaction.id # NoId THEN nextTxId + 1 ELSE nextTxId
    /\ UNCHANGED <<accounts, transactions, initial, nextAccId, now, splitWrite, reply, limits>>

CreateTransaction(h, req, fault) == Begin(h, "CreateTransaction", req, fault)

\* mutant: the payment is created with the amount's absolute value
ProcessPaymentAbsolute(h, req, fault) ==
    Begin(h, "ProcessPayment",
          [account_id |-> req.account_id, operation_type |-> "PAYMENT",
           amount |-> IF req.amount < 0 THEN -req.amount ELSE req.amount,
           description |-> req.description], fault)

ProcessPayment(h, req, fault) ==
    Begin(h, "ProcessPayment",
          [account_id |-> req.account_id, operation_type |-> "PAYMENT",
           amount |-> req.amount, description |-> req.description], fault)

\* db.ExecContext of UPDATE accounts SET balance = balance + $1 ... WHERE id = $3 with
\* $1 = delta, and the handler's reaction to its error
ExecUpdate(h, fault, delta) ==
    /\ calls[h].pc = "update"
    /\ LET call == [calls[h] EXCEPT !.overtook =
                       {calls[g].dbTransaction.id : g \in {k \in Handlers \ {h} :
                                       /\ calls[k].pc = "update"
                                       /\ calls[k].req.account_id = calls[h].req.account_id}}]
           id == call.req.account_id
           err == IF fault THEN "ErrConnDone" ELSE UpdateBalanceError(id, delta)
       IN IF err # "nil"
          THEN /\ calls' = [calls EXCEPT ![h] = Failed(call,
                               IF call.req.operation_type = "PAYMENT"
                               THEN "could not process payment"
                               ELSE "could not process transaction", err)]
               /\ UNCHANGED accounts
          ELSE /\ accounts' = UpdateBalanceRows(id, delta, GetCurrentTimestamp)
               /\ calls' = [calls EXCEPT ![h] =
                               [call EXCEPT !.pc = "insert",
                                            !.applied = (id \in DOMAIN accounts),
                                            !.dbTransaction.amount = call.amount]]
    /\ UNCHANGED <<transactions, initial, nextAccId, nextTxId, now, splitWrite, reply, limits>>

\* mutant: the handler goes on to the INSERT when the UPDATE has failed
UpdateBalanceGoingOn(h, fault) ==
    /\ calls[h].pc = "update"
    /\ LET call == calls[h]
           id == call.req.account_id
           err == IF fault THEN "ErrConnDone" ELSE UpdateBalanceError(id, call.amount)
       IN /\ accounts' = IF err = "nil"
                         THEN UpdateBalanceRows(id, call.amount, GetCurrentTimestamp)
                         ELSE accounts
          /\ calls' = [calls EXCEPT ![h] =
                          [call EXCEPT !.pc = "insert", !.err = err,
                                       !.applied = (err = "nil" /\ id \in DOMAIN accounts),
                                       !.dbTransaction.amount = call.amount]]
    /\ UNCHANGED <<transactions, initial, nextAccId, nextTxId, now, splitWrite, reply, limits>>

\* mutant: the statement writes the balance the handler read plus the amount
UpdateBalanceFromRead(h, fault) ==
    ExecUpdate(h, fault,
               IF calls[h].req.account_id \in DOMAIN accounts
               THEN calls[h].account.balance + calls[h].amount
                    - accounts[calls[h].req.account_id].balance
               ELSE calls[h].amount)

\* the handler's UPDATE statement: $1 is the signed amount
UpdateBalance(h, fault) == ExecUpdate(h, fault, calls[h].amount)

\* mutant: a failed INSERT takes the balance change back
InsertTransactionRollingBack(h, fault) ==
    /\ calls[h].pc = "insert"
    /\ LET call == calls[h]
           dbTransaction == [call.dbTransaction EXCEPT !.status = "COMPLETED"]
           err == IF fault THEN "ErrConnDone" ELSE InsertTransactionError(dbTransaction)
       IN IF err # "nil"
          THEN /\ calls' = [calls EXCEPT ![h] =
                               Failed([call EXCEPT !.dbTransaction = dbTransaction],
                                      "could not create transaction", err)]
               /\ accounts' = UpdateBalanceRows(call.req.account_id, -call.amount,
                                                GetCurrentTimestamp)
               /\ UNCHANGED <<transactions, splitWrite>>
          ELSE /\ transactions' = transactions \cup {dbTransaction}
               /\ calls' = [calls EXCEPT ![h] =
                               [call EXCEPT !.pc = "done", !.dbTransaction = dbTransaction,
                                            !.resp = [transaction |-> ConvertTransactionToProto(dbTransaction),
                                                      error |-> ""]]]
               /\ UNCHANGED <<accounts, splitWrite>>
    /\ UNCHANGED <<initial, nextAccId, nextTxId, now, reply, limits>>

\* mutant: the row is inserted with the status the conversion gave it
InsertTransactionPending(h, fault) ==
    /\ calls[h].pc = "insert"
    /\ LET call == calls[h]
           dbTransaction == call.dbTransaction
           err == IF fault THEN "ErrConnDone" ELSE InsertTransactionError(dbTransaction)
       IN IF err # "nil"
          THEN /\ calls' = [calls EXCEPT ![h] =
                               Failed([call EXCEPT !.dbTransaction = dbTransaction],
                                      "could not create transaction", err)]
               /\ splitWrite' = (splitWrite \/ call.applied)
               /\ UNCHANGED transactions
          ELSE /\ transactions' = transactions \cup {dbTransaction}
               /\ calls' = [calls EXCEPT ![h] =
                               [call EXCEPT !.pc = "done", !.dbTransaction = dbTransaction,
                                            !.resp = [transaction |-> ConvertTransactionToProto(dbTransaction),
                                                      error |-> ""]]]
               /\ UNCHANGED splitWrite
    /\ UNCHANGED <<accounts, initial, nextAccId, nextTxId, now, reply, limits>>

\* the handler's INSERT INTO transactions statement and its response
InsertTransaction(h, fault) ==
    /\ calls[h].pc = "insert"
    /\ LET call == calls[h]
           dbTransaction == [call.dbTransaction EXCEPT !.status = "COMPLETED"]
           err == IF fault THEN "ErrConnDone" ELSE InsertTransactionError(dbTransaction)
       IN IF err # "nil"
          THEN /\ calls' = [calls EXCEPT ![h] =
                               Failed([call EXCEPT !.dbTransaction = dbTransaction],
                                      "could not create transaction", err)]
               /\ splitWrite' = (splitWrite \/ call.applied)
               /\ UNCHANGED transactions
          ELSE /\ transactions' = transactions \cup {dbTransaction}
               /\ calls' = [calls EXCEPT ![h] =
                               [call EXCEPT !.pc = "done", !.dbTransaction = dbTransaction,
                                            !.resp = Response(call.rpc,
                                                [transaction |-> ConvertTransactionToProto(dbTransaction),
                                                 error |-> ""])]]
               /\ UNCHANGED splitWrite
    /\ UNCHANGED <<accounts, initial, nextAccId, nextTxId, now, reply, limits>>

\* the response has been sent; the handler serves the next request
Return(h) ==
    /\ calls[h].pc = "done"
    /\ calls' = [calls EXCEPT ![h] = IdleCall]
    /\ UNCHANGED <<accounts, transactions, initial, nextAccId, nextTxId, now, splitWrite,
                   reply, limits>>

\* ---------------------------------------------------------------- read handlers
\* A handler of the account service, or a read handler of the transaction service, has
\* served req: err is what the store's driver returned, resp the response message.
Answer(rpc, req, result) ==
    /\ reply = NoReply
    /\ reply' = [rpc |-> rpc, req |-> req, err |-> result.err, resp |-> result.resp]

\* the response has been sent
ReturnReply ==
    /\ reply # NoReply
    /\ reply' = NoReply
    /\ UNCHANGED ledger

ConvertAccountToProto(dbAccount) ==
    [id |-> dbAccount.id, document_number |-> dbAccount.document_number,
     account_type |-> dbAccount.account_type, balance |-> dbAccount.balance,
     created_at |-> dbAccount.created_at, updated_at |-> dbAccount.updated_at]

GetAccountResponse(req, fault) ==
    IF req.id = NoId
    THEN [err |-> "nil", resp |-> [account |-> NoAccount, error |-> "id required"]]
    ELSE LET row == QueryAccount(req.id, fault)
         IN IF row.err = "ErrNoRows"
            THEN [err |-> row.err, resp |-> [account |-> NoAccount, error |-> "not found"]]
            ELSE IF row.err # "nil"
            THEN [err |-> row.err, resp |-> [account |-> NoAccount, error |-> "database error"]]
            ELSE [err |-> "nil",
                  resp |-> [account |-> ConvertAccountToProto(row.account), error |-> ""]]

GetAccount(req, fault) ==
    /\ Answer("GetAccount", req, GetAccountResponse(req, fault))
    /\ UNCHANGED ledger

\* the response of CreateAccount
CreateAccountResponse(req, fault) ==
    IF req.document_number = "" \/ req.account_type = ""
    THEN [err |-> "nil", resp |-> [account |-> NoAccount, error |-> "missing required fields"]]
    ELSE LET dbAccount == [ConvertCreateAccountRequestToAccount(req) EXCEPT !.id = nextAccId]
             err == IF fault THEN "ErrConnDone" ELSE InsertAccountError(dbAccount)
         IN IF err # "nil"
            THEN [err |-> err,
                  resp |-> [account |-> NoAccount, error |-> "could not create account"]]
            ELSE [err |-> "nil",
                  resp |-> [account |-> ConvertAccountToProto(dbAccount), error |-> ""]]

\* the response of UpdateAccount: that of its UPDATE when it fails, else the account
\* of the response of the GetAccount it then calls on the updated table
UpdateAccountResponse(req, fault, faultGet) ==
    IF req.id = NoId
    THEN [err |-> "nil", resp |-> [account |-> NoAccount, error |-> "id required"]]
    ELSE LET err == IF fault THEN "ErrConnDone" ELSE UpdateAccountError(req)
             get == GetAccountResponse([id |-> req.id], faultGet)'
         IN IF err # "nil"
            THEN [err |-> err,
                  resp |-> [account |-> NoAccount, error |-> "could not update account"]]
            ELSE [err |-> get.err, resp |-> [account |-> get.resp.account, error |-> ""]]

\* mutant: deleting no row is a success
DeleteAccountResponseSuccess(req, fault) ==
    IF req.id = NoId
    THEN [err |-> "nil", resp |-> [success |-> FALSE, error |-> "id required"]]
    ELSE IF fault
    THEN [err |-> "ErrConnDone", resp |-> [success |-> FALSE, error |-> "could not delete account"]]
    ELSE [err |-> "nil", resp |-> [success |-> TRUE, error |-> ""]]

\* the response of DeleteAccount
DeleteAccountResponse(req, fault) ==
    IF req.id = NoId
    THEN [err |-> "nil", resp |-> [success |-> FALSE, error |-> "id required"]]
    ELSE IF fault
    THEN [err |-> "ErrConnDone", resp |-> [success |-> FALSE, error |-> "could not delete account"]]
    ELSE IF req.id \notin DOMAIN accounts
    THEN [err |-> "nil", resp |-> [success |-> FALSE, error |-> "account not found"]]
    ELSE [err |-> "nil", resp |-> [success |-> TRUE, error |-> ""]]

\* mutant: the balance the account was created with
GetBalanceResponseInitial(req, fault) ==
    IF req.account_id = NoId
    THEN [err |-> "nil", resp |-> [balance |-> 0, error |-> "account_id required"]]
    ELSE IF fault
    THEN [err |-> "ErrConnDone", resp |-> [balance |-> 0, error |-> "database error"]]
    ELSE IF req.account_id \notin DOMAIN accounts
    THEN [err |-> "ErrNoRows", resp |-> [balance |-> 0, error |-> "account not found"]]
    ELSE [err |-> "nil", resp |-> [balance |-> initial[req.account_id], error |-> ""]]

\* SELECT balance FROM accounts WHERE id = $1
GetBalanceResponse(req, fault) ==
    IF req.account_id = NoId
    THEN [err |-> "nil", resp |-> [balance |-> 0, error |-> "account_id required"]]
    ELSE IF fault
    THEN [err |-> "ErrConnDone", resp |-> [balance |-> 0, error |-> "database error"]]
    ELSE IF req.account_id \notin DOMAIN accounts
    THEN [err |-> "ErrNoRows", resp |-> [balance |-> 0, error |-> "account not found"]]
    ELSE [err |-> "nil", resp |-> [balance |-> accounts[req.account_id].balance, error |-> ""]]

GetBalance(req, fault) ==
    /\ Answer("GetBalance", req, GetBalanceResponse(req, fault))
    /\ UNCHANGED ledger

\* SELECT ... FROM transactions WHERE id = $1, scanned into dbTransaction
QueryTransaction(id, fault) ==
    IF fault THEN [err |-> "ErrConnDone", dbTransaction |-> NoTransaction]
    ELSE IF \A t \in transactions : t.id # id
    THEN [err |-> "ErrNoRows", dbTransaction |-> NoTransaction]
    ELSE [err |-> "nil", dbTransaction |-> CHOOSE t \in transactions : t.id = id]

\* mutant: the response carries the amount without its sign
GetTransactionResponseUnsigned(req, fault) ==
    IF req.id = NoId
    THEN [err |-> "nil", resp |-> [transaction |-> NoTransaction, error |-> "id required"]]
    ELSE LET row == QueryTransaction(req.id, fault)
         IN IF row.err = "ErrNoRows"
            THEN [err |-> row.err, resp |-> [transaction |-> NoTransaction, error |-> "not found"]]
            ELSE IF row.err # "nil"
            THEN [err |-> row.err,
                  resp |-> [transaction |-> NoTransaction, error |-> "database error"]]
            ELSE [err |-> "nil",
                  resp |-> [transaction |->
                               [ConvertTransactionToProto(row.dbTransaction)
                                   EXCEPT !.amount = IF @ < 0 THEN -@ ELSE @],
                            error |-> ""]]

GetTransactionResponse(req, fault) ==
    IF req.id = NoId
    THEN [err |-> "nil", resp |-> [transaction |-> NoTransaction, error |-> "id required"]]
    ELSE LET row == QueryTransaction(req.id, fault)
         IN IF row.err = "ErrNoRows"
            THEN [err |-> row.err, resp |-> [transaction |-> NoTransaction, error |-> "not found"]]
            ELSE IF row.err # "nil"
            THEN [err |-> row.err,
                  resp |-> [transaction |-> NoTransaction, error |-> "database error"]]
            ELSE [err |-> "nil",
                  resp |-> [transaction |-> ConvertTransactionToProto(row.dbTransaction),
                            error |-> ""]]

GetTransaction(req, fault) ==
    /\ Answer("GetTransaction", req, GetTransactionResponse(req, fault))
    /\ UNCHANGED ledger

\* limit := req.Limit; if limit <= 0 || limit > 100 { limit = 50 }
\* mutant: a limit above 100 is cut to 100
EffectiveLimitCapped(limit) == IF limit <= 0 THEN 50 ELSE IF limit > 100 THEN 100 ELSE limit

EffectiveLimit(limit) == IF limit <= 0 \/ limit > 100 THEN 50 ELSE limit

\* offset := req.Offset; if offset < 0 { offset = 0 }
EffectiveOffset(offset) == IF offset < 0 THEN 0 ELSE offset

\* mutant: oldest first
OrderByCreatedAtAsc(rows) ==
    {s \in [1..Cardinality(rows) -> rows] :
        /\ \A i, j \in DOMAIN s : i # j => s[i] # s[j]
        /\ \A i, j \in DOMAIN s : i < j => s[i].created_at <= s[j].created_at}

\* ORDER BY created_at DESC: the orders the store may return rows in (rows of one
\* second come in any order)
OrderByCreatedAtDesc(rows) ==
    {s \in [1..Cardinality(rows) -> rows] :
        /\ \A i, j \in DOMAIN s : i # j => s[i] # s[j]
        /\ \A i, j \in DOMAIN s : i < j => s[i].created_at >= s[j].created_at}

\* LIMIT $2 OFFSET $3
LimitOffset(s, limit, offset) ==
    SubSeq(s, offset + 1, IF offset + limit < Len(s) THEN offset + limit ELSE Len(s))

\* the two queries of GetTransactionHistory, the second returning the account's rows
\* in the order s, and the response built from them
GetTransactionHistoryResponse(req, faultCount, faultRows, s) ==
    LET failed(err, error) ==
            [err |-> err, resp |-> [transactions |-> <<>>, total |-> 0, error |-> error]]
        limit == EffectiveLimit(req.limit)
        offset == EffectiveOffset(req.offset)
        total == Cardinality(RowsOf(req.account_id))
        rows == LimitOffset(s, limit, offset)
    IN IF req.account_id = NoId THEN failed("nil", "account_id required")
       ELSE IF faultCount \/ faultRows THEN failed("ErrConnDone", "database error")
       ELSE [err |-> "nil",
             resp |-> [transactions |-> [i \in DOMAIN rows |-> ConvertTransactionToProto(rows[i])],
                       total |-> total, error |-> ""]]

GetTransactionHistory(req, faultCount, faultRows) ==
    /\ reply = NoReply
    /\ \E s \in OrderByCreatedAtDesc(RowsOf(req.account_id)) :
          LET result == GetTransactionHistoryResponse(req, faultCount, faultRows, s)
          IN reply' = [rpc |-> "GetTransactionHistory", req |-> req, err |-> result.err,
                       resp |-> result.resp,
                       limit |-> IF req.account_id = NoId THEN req.limit
                                 ELSE EffectiveLimit(req.limit),
                       offset |-> IF req.account_id = NoId THEN req.offset
                                  ELSE EffectiveOffset(req.offset)]
    /\ UNCHANGED ledger

\* time.Now().Unix() moves on
Tick ==
    /\ now < MaxTime
    /\ now' = now + 1
    /\ UNCHANGED <<accounts, transactions, initial, nextAccId, nextTxId, calls, splitWrite,
                   reply, limits>>

\* ---------------------------------------------------------------- inputs
CreateAccountRequests ==
    [document_number : DocumentInputs, account_type : AccountTypeInputs,
     initial_balance : InitialBalances]
UpdateAccountRequests ==
    [id : AccountIds \cup {NoId}, document_number : DocumentInputs,
     account_type : AccountTypeInputs]
DeleteAccountRequests == [id : AccountIds \cup {NoId}]
CreateTransactionRequests ==
    [account_id : AccountIds \cup {NoId}, operation_type : OperationInputs,
     amount : Amounts, description : DescriptionInputs]
ProcessPaymentRequests ==
    [account_id : AccountIds \cup {NoId}, amount : Amounts, description : DescriptionInputs]

\* ---------------------------------------------------------------- specification
Init ==
    /\ accounts = <<>>
    /\ transactions = {}
    /\ initial = <<>>
    /\ nextAccId = 1
    /\ nextTxId = 1
    /\ now = 0
    /\ calls = [h \in Handlers |-> IdleCall]
    /\ splitWrite = FALSE
    /\ reply = NoReply
    /\ limits = [balance |-> MaxBalance, tx |-> MaxTx]

\* a request goes to the first idle handler
Serves(h) == calls[h].pc = "idle" /\ \A g \in Handlers : calls[g].pc = "idle" => ~(g < h)
Quiet == reply = NoReply /\ \A h \in Handlers : calls[h].pc = "idle"

DoUpdateBalance == \E h \in Handlers, fault \in BOOLEAN : UpdateBalance(h, fault)
DoInsertTransaction == \E h \in Handlers, fault \in BOOLEAN : InsertTransaction(h, fault)
DoReturn == \E h \in Handlers : Return(h)

\* Spec: requests on the stored accounts, served concurrently by the handlers and
\* interleaved with the account service, statement by statement.  Spec and SpecSeq
\* do not keep the account service's responses.
DoCreateAccount ==
    \E req \in [document_number : {"111"}, account_type : {"CHECKING"},
                initial_balance : InitialBalances], fault \in BOOLEAN :
        CreateAccount(req, fault) /\ UNCHANGED reply
DoUpdateAccount ==
    \E req \in [id : AccountIds, document_number : {""}, account_type : {"SAVINGS"}],
       fault \in BOOLEAN :
        UpdateAccount(req, fault) /\ UNCHANGED reply
DoDeleteAccount ==
    \E req \in [id : AccountIds], fault \in BOOLEAN :
        DeleteAccount(req, fault) /\ UNCHANGED reply
DoCreateTransaction ==
    \E h \in Handlers, fault \in BOOLEAN,
       req \in [account_id : AccountIds, operation_type : {"WITHDRAWAL"},
                amount : 0..MaxAmount, description : {"rent"}] :
        Serves(h) /\ CreateTransaction(h, req, fault)
DoProcessPayment ==
    \E h \in Handlers, fault \in BOOLEAN,
       req \in [account_id : AccountIds, amount : 0..MaxAmount, description : {"rent"}] :
        Serves(h) /\ ProcessPayment(h, req, fault)

Next ==
    \/ DoCreateAccount
    \/ DoUpdateAccount
    \/ DoDeleteAccount
    \/ DoCreateTransaction
    \/ DoProcessPayment
    \/ DoUpdateBalance
    \/ DoInsertTransaction
    \/ DoReturn

Spec == Init /\ [][Next]_vars

\* SpecSeq: one request at a time, over every kind of input.
SeqCreateAccount ==
    \E req \in [document_number : {"111"}, account_type : {"CHECKING"},
                initial_balance : InitialBalances], fault \in BOOLEAN :
        Quiet /\ CreateAccount(req, fault) /\ UNCHANGED reply
SeqDeleteAccount ==
    \E req \in [id : AccountIds], fault \in BOOLEAN :
        Quiet /\ DeleteAccount(req, fault) /\ UNCHANGED reply
SeqCreateTransaction ==
    \E h \in Handlers, req \in CreateTransactionRequests, fault \in BOOLEAN :
        Quiet /\ Serves(h) /\ CreateTransaction(h, req, fault)
SeqProcessPayment ==
    \E h \in Handlers, req \in ProcessPaymentRequests, fault \in BOOLEAN :
        Quiet /\ Serves(h) /\ ProcessPayment(h, req, fault)

NextSeq ==
    \/ SeqCreateAccount
    \/ SeqDeleteAccount
    \/ SeqCreateTransaction
    \/ SeqProcessPayment
    \/ DoUpdateBalance
    \/ DoInsertTransaction
    \/ DoReturn

SpecSeq == Init /\ [][NextSeq]_vars

\* SpecScenario: the requests of the reference scenario, in cents, one at a time and in
\* any order, with the balance read between them.
ScenarioRequests ==
    {[account_id |-> a, operation_type |-> "PAYMENT", amount |-> 10050,
      description |-> "rent"] : a \in AccountIds}
    \cup {[account_id |-> a, operation_type |-> "CASH_PURCHASE", amount |-> 5000,
           description |-> "rent"] : a \in AccountIds}
    \cup {[account_id |-> a, operation_type |-> "WITHDRAWAL", amount |-> 200000,
           description |-> "rent"] : a \in AccountIds}

ScenarioInit ==
    /\ accounts = <<>>
    /\ transactions = {}
    /\ initial = <<>>
    /\ nextAccId = 1
    /\ nextTxId = 1
    /\ now = 0
    /\ calls = [h \in Handlers |-> IdleCall]
    /\ splitWrite = FALSE
    /\ reply = NoReply
    /\ limits = [balance |-> ScenarioMaxBalance, tx |-> ScenarioMaxTx]

\* no request is between its statements and no response is being sent
Settled == reply = NoReply /\ \A h \in Handlers : calls[h].pc \in {"idle", "done"}

ScenarioCreateAccount ==
    \E fault \in BOOLEAN :
        /\ Quiet
        /\ CreateAccount([document_number |-> "111", account_type |-> "CHECKING",
                          initial_balance |-> 100000], fault)
        /\ UNCHANGED reply
ScenarioCreateTransaction ==
    \E h \in Handlers, req \in ScenarioRequests, fault \in BOOLEAN :
        Quiet /\ Serves(h) /\ CreateTransaction(h, req, fault)
ScenarioGetBalance ==
    \E req \in [account_id : AccountIds], fault \in BOOLEAN : Settled /\ GetBalance(req, fault)

NextScenario ==
    \/ ScenarioCreateAccount
    \/ ScenarioCreateTransaction
    \/ ScenarioGetBalance
    \/ DoUpdateBalance
    \/ DoInsertTransaction
    \/ DoReturn
    \/ ReturnReply

SpecScenario == ScenarioInit /\ [][NextScenario]_vars

\* SpecRead: SpecSeq's requests, with the balance and the transactions read whenever
\* no request is between its statements.
ReadGetBalance ==
    \E req \in [account_id : AccountIds \cup {NoId}], fault \in BOOLEAN :
        Settled /\ GetBalance(req, fault)
ReadGetTransaction ==
    \E req \in [id : TxIds \cup {NoId}], fault \in BOOLEAN :
        Settled /\ GetTransaction(req, fault)

NextRead ==
    \/ SeqCreateAccount
    \/ SeqCreateTransaction
    \/ SeqProcessPayment
    \/ DoUpdateBalance
    \/ DoInsertTransaction
    \/ DoReturn
    \/ ReadGetBalance
    \/ ReadGetTransaction
    \/ ReturnReply

SpecRead == Init /\ [][NextRead]_vars

\* SpecHistory: payments and withdrawals on two accounts as the clock moves on, one
\* request at a time, with the history read whenever no request is between its
\* statements.
HistoryInit ==
    /\ accounts = <<>>
    /\ transactions = {}
    /\ initial = <<>>
    /\ nextAccId = 1
    /\ nextTxId = 1
    /\ now = 0
    /\ calls = [h \in Handlers |-> IdleCall]
    /\ splitWrite = FALSE
    /\ reply = NoReply
    /\ limits = [balance |-> MaxBalance, tx |-> HistoryMaxTx]

GetTransactionHistoryRequests ==
    [account_id : AccountIds \cup {NoId}, limit : LimitInputs, offset : OffsetInputs]

HistoryCreateAccount ==
    \E req \in [document_number : {"111", "222"}, account_type : {"CHECKING"},
                initial_balance : {1}] :
        Quiet /\ CreateAccount(req, FALSE) /\ UNCHANGED reply
HistoryDeleteAccount ==
    \E req \in [id : AccountIds] :
        Settled /\ DeleteAccount(req, FALSE) /\ UNCHANGED reply
HistoryCreateTransaction ==
    \E h \in Handlers,
       req \in [account_id : AccountIds, operation_type : {"PAYMENT", "WITHDRAWAL"},
                amount : {1}, description : {"rent"}] :
        Quiet /\ Serves(h) /\ CreateTransaction(h, req, FALSE)
HistoryUpdateBalance == \E h \in Handlers : UpdateBalance(h, FALSE)
HistoryInsertTransaction == \E h \in Handlers : InsertTransaction(h, FALSE)
HistoryGetTransactionHistory ==
    \E req \in GetTransactionHistoryRequests, faultCount, faultRows \in BOOLEAN :
        Settled /\ GetTransactionHistory(req, faultCount, faultRows)

NextHistory ==
    \/ HistoryCreateAccount
    \/ HistoryDeleteAccount
    \/ HistoryCreateTransaction
    \/ HistoryUpdateBalance
    \/ HistoryInsertTransaction
    \/ DoReturn
    \/ HistoryGetTransactionHistory
    \/ ReturnReply
    \/ Tick

SpecHistory == HistoryInit /\ [][NextHistory]_vars

\* SpecAccount: the account service with its responses, payments and withdrawals on
\* the accounts, and the reads, one request at a time.
AccountCreateAccount ==
    \E req \in [document_number : {"111", "222"}, account_type : {"CHECKING"},
                initial_balance : {1}], fault \in BOOLEAN :
        /\ Settled
        /\ CreateAccount(req, fault)
        /\ Answer("CreateAccount", req, CreateAccountResponse(req, fault))
AccountUpdateAccount ==
    \E req \in [id : AccountIds \cup {NoId}, document_number : {"", "222"},
                account_type : {"", "SAVINGS", "PREMIUM"}], fault, faultGet \in BOOLEAN :
        /\ Settled
        /\ UpdateAccount(req, fault)
        /\ Answer("UpdateAccount", req, UpdateAccountResponse(req, fault, faultGet))
AccountDeleteAccount ==
    \E req \in DeleteAccountRequests, fault \in BOOLEAN :
        /\ Settled
        /\ DeleteAccount(req, fault)
        /\ Answer("DeleteAccount", req, DeleteAccountResponse(req, fault))
AccountGetAccount ==
    \E req \in [id : AccountIds \cup {NoId}], fault \in BOOLEAN :
        Settled /\ GetAccount(req, fault)
AccountCreateTransaction ==
    \E h \in Handlers, fault \in BOOLEAN,
       req \in [account_id : AccountIds, operation_type : {"PAYMENT", "WITHDRAWAL"},
                amount : {1}, description : {"rent"}] :
        Quiet /\ Serves(h) /\ CreateTransaction(h, req, fault)

NextAccount ==
    \/ AccountCreateAccount
    \/ AccountUpdateAccount
    \/ AccountDeleteAccount
    \/ AccountGetAccount
    \/ ReadGetBalance
    \/ AccountCreateTransaction
    \/ HistoryUpdateBalance
    \/ HistoryInsertTransaction
    \/ DoReturn
    \/ ReadGetTransaction
    \/ ReturnReply

SpecAccount == Init /\ [][NextAccount]_vars

\* SpecClock: the account service over every kind of input as the clock moves on,
\* with payments and withdrawals on the accounts, one request at a time.
ClockCreateAccount ==
    \E req \in [document_number : DocumentInputs, account_type : {"", "CHECKING", "PREMIUM"},
                initial_balance : InitialBalances], fault \in BOOLEAN :
        /\ Settled
        /\ CreateAccount(req, fault)
        /\ Answer("CreateAccount", req, CreateAccountResponse(req, fault))
ClockUpdateAccount ==
    \E req \in [id : AccountIds \cup {NoId}, document_number : {"", "222"},
                account_type : {"", "CREDIT", "PREMIUM"}], fault, faultGet \in BOOLEAN :
        /\ Settled
        /\ UpdateAccount(req, fault)
        /\ Answer("UpdateAccount", req, UpdateAccountResponse(req, fault, faultGet))

ClockProcessPayment ==
    \E h \in Handlers, req \in [account_id : AccountIds, amount : {1}, description : {"rent"}] :
        Quiet /\ Serves(h) /\ ProcessPayment(h, req, FALSE)

NextClock ==
    \/ ClockCreateAccount
    \/ ClockUpdateAccount
    \/ AccountDeleteAccount
    \/ ClockProcessPayment
    \/ HistoryUpdateBalance
    \/ HistoryInsertTransaction
    \/ DoReturn
    \/ ReturnReply
    \/ Tick

SpecClock == Init /\ [][NextClock]_vars

\* SpecLedger: every operation of the two services, one request at a time, with
\* storage faults.
LedgerCreateTransaction ==
    \E h \in Handlers, fault \in BOOLEAN,
       req \in [account_id : AccountIds, operation_type : {"PAYMENT", "WITHDRAWAL"},
                amount : {0, 1}, description : {"rent"}] :
        Quiet /\ Serves(h) /\ CreateTransaction(h, req, fault)
LedgerGetTransactionHistory ==
    \E req \in [account_id : AccountIds \cup {NoId}, limit : {1, 150}, offset : {0}],
       faultCount, faultRows \in BOOLEAN :
        Settled /\ GetTransactionHistory(req, faultCount, faultRows)

NextLedger ==
    \/ AccountCreateAccount
    \/ AccountUpdateAccount
    \/ AccountDeleteAccount
    \/ AccountGetAccount
    \/ ReadGetBalance
    \/ ReadGetTransaction
    \/ LedgerGetTransactionHistory
    \/ LedgerCreateTransaction
    \/ ClockProcessPayment
    \/ DoUpdateBalance
    \/ DoInsertTransaction
    \/ DoReturn
    \/ ReturnReply

SpecLedger == Init /\ [][NextLedger]_vars

\* ---------------------------------------------------------------- properties
Abs(n) == IF n < 0 THEN -n ELSE n

Returned(h) == calls[h].pc = "done"
InFlight(h) == calls[h].pc \in {"update", "insert"}

\* the step in which handler h takes a request and runs it up to its first write
Started(h) == calls[h].pc = "idle" /\ calls'[h].pc # "idle"
\* the step in which handler h runs the UPDATE / the INSERT of its request
Updated(h) == calls[h].pc = "update" /\ calls'[h].pc # "update"
Inserted(h) == calls[h].pc = "insert" /\ calls'[h].pc # "insert"
StoreUnchanged == accounts' = accounts /\ transactions' = transactions
RowOf(id) == {t \in transactions : t.id = id}

\* C1: whenever no CreateTransaction request is between its statements and no INSERT
\* has failed after its request's balance UPDATE, every stored account's balance is
\* its initial balance plus the sum of the amounts of its transaction rows.
LedgerInvariant ==
    ((\A h \in Handlers : ~InFlight(h)) /\ ~splitWrite)
        => \A a \in DOMAIN accounts :
               accounts[a].balance = initial[a] + SumAmounts(RowsOf(a))

\* C1 witness: two requests on one account read the same balance before either wrote,
\* one recorded a debit, the store refused the other's, and both have returned.
LedgerWitness ==
    /\ ~splitWrite
    /\ \E h, g \in Handlers :
          /\ h # g /\ Returned(h) /\ Returned(g)
          /\ calls[h].req.account_id = calls[g].req.account_id
          /\ calls[h].req.account_id \in DOMAIN accounts
          /\ calls[h].resp.error = "" /\ calls[h].resp.transaction.amount < 0
          /\ calls[g].err = "check_violation"
          /\ RowsOf(calls[h].req.account_id) # {}

\* C2: every stored account has balance >= 0.
NonNegativeBalance == \A a \in DOMAIN accounts : accounts[a].balance >= 0

\* C2 witness: a debit has been applied down to zero and the store's CHECK has
\* refused a concurrent one that would have gone below.
NonNegativeWitness ==
    \E h \in Handlers :
        /\ calls[h].err = "check_violation"
        /\ calls[h].req.account_id \in DOMAIN accounts
        /\ accounts[calls[h].req.account_id].balance = 0
        /\ calls[h].account.balance > 0

\* C3 (the claim as stated): for every returned request whose account is still stored,
\* its balance change is persisted exactly when its transaction row is.
AtomicCreateTransaction ==
    \A h \in Handlers :
        (Returned(h) /\ calls[h].req.account_id \in DOMAIN accounts)
            => /\ (calls[h].applied /\ calls[h].amount # 0)
                      => RowOf(calls[h].dbTransaction.id) # {}
               /\ RowOf(calls[h].dbTransaction.id) # {} => calls[h].applied

\* C4: a debit request whose lookup returns the account with balance < |amount| ends
\* in that step with "insufficient balance" and changes neither table.
InsufficientBalance ==
    [][\A h \in Handlers :
          LET c == calls'[h]
          IN (/\ Started(h)
              /\ c.req.operation_type \in DebitOperations
              /\ c.req.account_id \in DOMAIN accounts
              /\ c.err = "nil"
              /\ Abs(c.req.amount) > accounts[c.req.account_id].balance)
             => /\ c.pc = "done"
                /\ c.resp = [transaction |-> NoTransaction, error |-> "insufficient balance"]
                /\ StoreUnchanged]_vars

InsufficientBalanceWitness ==
    \E h \in Handlers :
        /\ Returned(h)
        /\ calls[h].req.operation_type \in DebitOperations
        /\ Abs(calls[h].req.amount) > calls[h].account.balance
        /\ calls[h].account.id # NoId
        /\ calls[h].resp.error = "insufficient balance"

\* C5: a PAYMENT request with amount > 0 that succeeds leaves the balance at the prior
\* balance plus amount and adds exactly one row, which like the returned transaction
\* carries the request's amount, account_id and description and status COMPLETED.
PaymentRow(c) ==
    [id |-> c.dbTransaction.id, account_id |-> c.req.account_id, operation_type |-> "PAYMENT",
     amount |-> c.req.amount, description |-> c.req.description,
     created_at |-> c.dbTransaction.created_at, status |-> "COMPLETED"]

PaymentResult ==
    [][\A h \in Handlers :
          LET c == calls'[h]
              id == c.req.account_id
          IN /\ ((Started(h) \/ Updated(h)) /\ c.req.operation_type = "PAYMENT")
                    => transactions' = transactions
             /\ (Inserted(h) /\ c.req.operation_type = "PAYMENT" /\ c.resp.error = "")
                    => /\ c.req.amount > 0
                       /\ accounts' = accounts
                       /\ accounts'[id].balance = c.account.balance + c.req.amount
                       /\ PaymentRow(c) \notin transactions
                       /\ transactions' = transactions \cup {PaymentRow(c)}
                       /\ c.resp.transaction = PaymentRow(c)]_vars

PaymentResultWitness ==
    \E h \in Handlers :
        /\ Returned(h) /\ calls[h].resp.error = ""
        /\ calls[h].req.operation_type = "PAYMENT"
        /\ calls[h].resp.transaction \in transactions
        /\ calls[h].req.description # ""

\* C6 (the claim as stated): a debit request that succeeds leaves the balance at the
\* prior balance minus |amount| and adds exactly one row, whose amount, like the
\* returned one, is negative.
DebitResultNegative ==
    [][\A h \in Handlers :
          LET c == calls'[h]
              id == c.req.account_id
          IN (Inserted(h) /\ c.req.operation_type \in DebitOperations /\ c.resp.error = "")
                 => /\ accounts'[id].balance = c.account.balance - Abs(c.req.amount)
                    /\ c.resp.transaction \notin transactions
                    /\ transactions' = transactions \cup {c.resp.transaction}
                    /\ c.resp.transaction.amount < 0]_vars

\* C6 (amended): a debit request that succeeds leaves the balance at the prior balance
\* minus |amount| and adds exactly one row, whose amount, like the returned one, is
\* -|amount|: negative, or zero when the request's amount is zero.
DebitResult ==
    [][\A h \in Handlers :
          LET c == calls'[h]
              id == c.req.account_id
          IN /\ ((Started(h) \/ Updated(h)) /\ c.req.operation_type \in DebitOperations)
                    => transactions' = transactions
             /\ (Inserted(h) /\ c.req.operation_type \in DebitOperations /\ c.resp.error = "")
                    => /\ accounts' = accounts
                       /\ accounts'[id].balance = c.account.balance - Abs(c.req.amount)
                       /\ c.resp.transaction \notin transactions
                       /\ transactions' = transactions \cup {c.resp.transaction}
                       /\ c.resp.transaction.id = c.dbTransaction.id
                       /\ c.resp.transaction.account_id = id
                       /\ c.resp.transaction.amount = -Abs(c.req.amount)
                       /\ c.resp.transaction.amount <= 0]_vars

DebitResultWitness ==
    \E h \in Handlers :
        /\ Returned(h) /\ calls[h].resp.error = ""
        /\ calls[h].req.operation_type \in DebitOperations
        /\ calls[h].req.amount > 0
        /\ calls[h].resp.transaction \in transactions
        /\ calls[h].resp.transaction.amount < 0

\* C7: two debit requests h and g on one stored account that read the same balance,
\* h having run its UPDATE while g had read and not yet written.
PastUpdate(h) ==
    \/ calls[h].pc = "insert"
    \/ Returned(h) /\ calls[h].resp.error \in {"", "could not process transaction",
                                              "could not create transaction"}

Racing(h, g) ==
    /\ h # g
    /\ calls[g].dbTransaction.id \in calls[h].overtook
    /\ calls[h].pc \in {"insert", "done"} /\ PastUpdate(g)
    /\ calls[h].req.operation_type \in DebitOperations
    /\ calls[g].req.operation_type \in DebitOperations
    /\ calls[h].req.account_id \in DOMAIN accounts
    /\ calls[h].account.balance = calls[g].account.balance

Applied(h) == IF calls[h].applied THEN calls[h].amount ELSE 0

\* C7 (the claim as stated): when the two debits of such a race together exceed the
\* balance they read and no statement met a storage fault, the balance has gone
\* negative or one of the two applied updates is missing from it.
ConcurrentDebitAnomaly ==
    \A h, g \in Handlers :
        (/\ Racing(h, g)
         /\ calls[h].account.balance + calls[h].amount + calls[g].amount < 0
         /\ calls[h].err # "ErrConnDone" /\ calls[g].err # "ErrConnDone")
        => LET a == calls[h].req.account_id
           IN \/ accounts[a].balance < 0
              \/ /\ calls[h].applied /\ calls[g].applied
                 /\ accounts[a].balance # calls[h].account.balance
                                            + calls[h].amount + calls[g].amount

\* C7 (amended): in such a race the balance stays >= 0 and equals the balance read plus
\* the amounts of the updates that were applied (none is lost); when the two debits
\* together exceed the balance read, the second UPDATE is not applied and its request
\* returns "could not process transaction".
ConcurrentDebitRace ==
    \A h, g \in Handlers :
        Racing(h, g)
        => LET a == calls[h].req.account_id
               b == calls[h].account.balance
           IN /\ accounts[a].balance >= 0
              /\ accounts[a].balance = b + Applied(h) + Applied(g)
              /\ (calls[h].applied /\ b + calls[h].amount + calls[g].amount < 0)
                    => /\ ~calls[g].applied
                       /\ Returned(g)
                       /\ calls[g].resp.error = "could not process transaction"

ConcurrentDebitRaceWitness ==
    \E h, g \in Handlers :
        /\ Racing(h, g)
        /\ calls[h].applied /\ calls[h].amount < 0
        /\ calls[g].err = "check_violation"
        /\ calls[g].resp.error = "could not process transaction"
        /\ accounts[calls[h].req.account_id].balance
              = calls[h].account.balance + calls[h].amount

\* C8: when the INSERT of a request fails after its UPDATE succeeded, the response is
\* "could not create transaction", the balance stays at the prior balance plus the
\* signed amount, no row of the request exists, and neither that step nor the return
\* of the request changes the store.
SplitWriteGap ==
    [][\A h \in Handlers :
          LET c == calls'[h]
              id == c.req.account_id
          IN /\ (Inserted(h) /\ c.err # "nil")
                    => /\ c.pc = "done"
                       /\ c.resp = [transaction |-> NoTransaction,
                                    error |-> "could not create transaction"]
                       /\ StoreUnchanged
                       /\ accounts'[id].balance = c.account.balance + c.amount
                       /\ c.amount = IF c.req.operation_type = "PAYMENT"
                                     THEN c.req.amount ELSE -Abs(c.req.amount)
                       /\ \A t \in transactions' : t.id # c.dbTransaction.id
             /\ (Returned(h) /\ calls'[h].pc = "idle") => StoreUnchanged]_vars

SplitWriteGapWitness ==
    \E h \in Handlers :
        /\ Returned(h) /\ calls[h].rpc = "ProcessPayment"
        /\ calls[h].resp.error = "could not create transaction"
        /\ calls[h].applied
        /\ accounts[calls[h].req.account_id].balance = calls[h].account.balance + calls[h].req.amount
        /\ RowsOf(calls[h].req.account_id) = {}

\* C9: a PAYMENT request with amount <= 0 whose lookup returns the account ends in that
\* step with "payment amount must be positive" and changes neither table.
NonPositivePayment ==
    [][\A h \in Handlers :
          LET c == calls'[h]
          IN (/\ Started(h)
              /\ c.req.operation_type = "PAYMENT"
              /\ c.req.amount <= 0
              /\ c.req.account_id \in DOMAIN accounts
              /\ c.err = "nil")
             => /\ c.pc = "done"
                /\ c.resp = [transaction |-> NoTransaction,
                             error |-> "payment amount must be positive"]
                /\ StoreUnchanged]_vars

NonPositivePaymentWitness ==
    \E h \in Handlers :
        /\ Returned(h)
        /\ calls[h].rpc = "CreateTransaction"
        /\ calls[h].req.operation_type = "PAYMENT"
        /\ calls[h].req.amount = 0
        /\ calls[h].account.id # NoId
        /\ calls[h].resp.error = "payment amount must be positive"

\* C10: a request with a valid operation type and a non-empty account_id that matches
\* no stored account, whose lookup meets no storage fault, ends in that step with
\* "account not found" and changes neither table.
UnknownAccount ==
    [][\A h \in Handlers :
          LET c == calls'[h]
          IN (/\ Started(h)
              /\ c.req.operation_type \in validOperations
              /\ c.req.account_id # NoId
              /\ c.req.account_id \notin DOMAIN accounts
              /\ c.err # "ErrConnDone")
             => /\ c.pc = "done"
                /\ c.resp = [transaction |-> NoTransaction, error |-> "account not found"]
                /\ StoreUnchanged]_vars

UnknownAccountWitness ==
    \E h \in Handlers :
        /\ Returned(h)
        /\ calls[h].req.operation_type \in validOperations
        /\ calls[h].req.account_id # NoId
        /\ calls[h].req.account_id \notin DOMAIN accounts
        /\ calls[h].resp.error = "account not found"
        /\ accounts # <<>>

\* C11: the checks of a request run in the order required fields, operation type,
\* account lookup, amount; the first that fails alone gives the error, the first two
\* fail whatever the store would answer and without reading it, and a request that
\* fails any of the four changes neither table.
ValidationOrder ==
    [][\A h \in Handlers :
          Started(h)
          => LET c == calls'[h]
                 req == c.req
                 unread == c.err = "nil" /\ c.account = NoAccount /\ nextTxId' = nextTxId
                 error == [transaction |-> NoTransaction, error |-> c.resp.error]
             IN /\ IF req.account_id = NoId \/ req.operation_type = ""
                   THEN c.resp.error = "missing required fields" /\ unread
                   ELSE IF req.operation_type \notin validOperations
                   THEN c.resp.error = "invalid operation type" /\ unread
                   ELSE IF c.err = "ErrConnDone"
                   THEN c.resp.error = "database error"
                   ELSE IF req.account_id \notin DOMAIN accounts
                   THEN c.resp.error = "account not found"
                   ELSE IF req.operation_type = "PAYMENT" /\ req.amount <= 0
                   THEN c.resp.error = "payment amount must be positive"
                   ELSE IF req.operation_type # "PAYMENT"
                           /\ Abs(req.amount) > accounts[req.account_id].balance
                   THEN c.resp.error = "insufficient balance"
                   ELSE c.pc = "update" /\ c.resp.error = ""
                /\ c.pc = "done" => (c.resp = error /\ c.resp.error # "")
                /\ StoreUnchanged]_vars

\* C11 witness: a request with an unknown operation type on an id that matches no
\* stored account has returned "invalid operation type", not "account not found".
ValidationOrderWitness ==
    \E h \in Handlers :
        /\ Returned(h)
        /\ calls[h].req.operation_type = "REFUND"
        /\ calls[h].req.account_id # NoId
        /\ calls[h].req.account_id \notin DOMAIN accounts
        /\ calls[h].req.amount < 0
        /\ calls[h].resp.error = "invalid operation type"
        /\ accounts # <<>>

\* C12: every row a step adds to the transactions table has status COMPLETED, only the
\* INSERT of a request that returns without error adds one, and a request that returns
\* an error has no row under its id.
CompletedStatus ==
    [][/\ \A t \in transactions' \ transactions : t.status = "COMPLETED"
       /\ \A h \in Handlers :
             LET c == calls'[h]
             IN /\ (Started(h) \/ Updated(h) \/ (Returned(h) /\ c.pc = "idle"))
                       => transactions' = transactions
                /\ (Inserted(h) /\ c.resp.error = "")
                       => /\ c.resp.transaction.status = "COMPLETED"
                          /\ transactions' \ transactions = {c.resp.transaction}
                /\ (c.pc = "done" /\ c.resp.error # "")
                       => /\ transactions' = transactions
                          /\ \A t \in transactions' : t.id # c.dbTransaction.id]_vars

\* C12 witness: one request has been recorded and a later one, of another operation
\* type, has returned an error after its UPDATE; the table holds the first row alone.
CompletedStatusWitness ==
    \E h \in Handlers :
        /\ Returned(h)
        /\ calls[h].resp.error = "could not create transaction"
        /\ calls[h].dbTransaction.status = "COMPLETED"
        /\ \E t \in transactions :
              /\ t.status = "COMPLETED"
              /\ t.operation_type # calls[h].req.operation_type
              /\ transactions = {t}

\* C13: on an account created with 1000.00, with no storage fault: once the PAYMENT of
\* 100.50 alone is recorded the balance, and what GetBalance returns, is 1100.50; once
\* the CASH_PURCHASE of 50.00 is recorded after it, its row has amount -50.00 and the
\* balance, and what GetBalance returns, is 1050.50; a WITHDRAWAL of 2000.00 then
\* returns "insufficient balance" and leaves the balance and the two rows as they are.
ReferenceScenario ==
    \A a \in DOMAIN accounts :
        (initial[a] = 100000 /\ ~splitWrite /\ \A h \in Handlers : ~InFlight(h))
        => LET rows == RowsOf(a)
               read == /\ reply # NoReply
                       /\ reply.rpc = "GetBalance"
                       /\ reply.req.account_id = a
                       /\ reply.err = "nil"
           IN /\ (\E p \in rows : /\ rows = {p}
                                  /\ p.operation_type = "PAYMENT" /\ p.amount = 10050)
                     => /\ accounts[a].balance = 110050
                        /\ read => reply.resp = [balance |-> 110050, error |-> ""]
              /\ \A p, c \in rows :
                    (/\ rows = {p, c} /\ p.id < c.id
                     /\ p.operation_type = "PAYMENT" /\ p.amount = 10050
                     /\ c.operation_type = "CASH_PURCHASE")
                    => /\ c.amount = -5000
                       /\ accounts[a].balance = 105050
                       /\ read => reply.resp = [balance |-> 105050, error |-> ""]
                       /\ \A h \in Handlers :
                             (/\ Returned(h)
                              /\ calls[h].req.account_id = a
                              /\ calls[h].req.operation_type = "WITHDRAWAL"
                              /\ calls[h].req.amount = 200000
                              /\ calls[h].err = "nil")
                             => calls[h].resp = [transaction |-> NoTransaction,
                                                 error |-> "insufficient balance"]

\* C13 witness: the scenario has run to its end: the payment and the purchase are the
\* first two transactions, the third request was the withdrawal, which returned
\* "insufficient balance", and GetBalance has then returned 1050.50.
ReferenceScenarioWitness ==
    \E a \in DOMAIN accounts, h \in Handlers :
        /\ initial[a] = 100000 /\ ~splitWrite
        /\ \E p, c \in RowsOf(a) :
              /\ RowsOf(a) = {p, c} /\ p.id = 1 /\ c.id = 2
              /\ p.operation_type = "PAYMENT" /\ c.operation_type = "CASH_PURCHASE"
              /\ c.amount = -5000
        /\ Returned(h)
        /\ calls[h].req = [account_id |-> a, operation_type |-> "WITHDRAWAL",
                           amount |-> 200000, description |-> "rent"]
        /\ calls[h].dbTransaction.id = 3
        /\ calls[h].resp.error = "insufficient balance"
        /\ reply # NoReply
        /\ reply.rpc = "GetBalance" /\ reply.req.account_id = a
        /\ reply.resp = [balance |-> 105050, error |-> ""]

\* C14: after a request on an account has returned a transaction T: GetTransaction with
\* T's id returns the request's account_id, operation type and description, the
\* sign-normalized amount and status COMPLETED; and while T is the only transaction
\* applied to the account since its creation with balance B, GetBalance returns B plus
\* the signed amount.
Signed(req) ==
    IF req.operation_type = "PAYMENT" THEN req.amount ELSE -Abs(req.amount)

RoundTrip ==
    \A h \in Handlers :
        (Returned(h) /\ calls[h].resp.error = "" /\ reply # NoReply /\ reply.err = "nil")
        => LET req == calls[h].req
               T == calls[h].resp.transaction
           IN /\ (reply.rpc = "GetTransaction" /\ reply.req.id = T.id)
                    => /\ reply.resp.error = ""
                       /\ reply.resp.transaction = T
                       /\ T.id # NoId
                       /\ T.account_id = req.account_id
                       /\ T.operation_type = req.operation_type
                       /\ T.description = req.description
                       /\ T.amount = Signed(req)
                       /\ T.status = "COMPLETED"
              /\ (/\ reply.rpc = "GetBalance" /\ reply.req.account_id = req.account_id
                  /\ ~splitWrite
                  /\ RowsOf(req.account_id) = {T})
                    => reply.resp = [balance |-> initial[req.account_id] + Signed(req),
                                     error |-> ""]

\* C14 witness: a debit given with a positive amount is the only transaction of its
\* account, and GetBalance has returned the initial balance less that amount.
RoundTripWitness ==
    \E h \in Handlers :
        /\ Returned(h) /\ calls[h].resp.error = ""
        /\ calls[h].req.operation_type \in DebitOperations
        /\ calls[h].req.amount > 0
        /\ ~splitWrite
        /\ RowsOf(calls[h].req.account_id) = {calls[h].resp.transaction}
        /\ reply # NoReply
        /\ reply.rpc = "GetBalance"
        /\ reply.req.account_id = calls[h].req.account_id
        /\ reply.resp = [balance |-> initial[calls[h].req.account_id] - calls[h].req.amount,
                         error |-> ""]

\* C15: serving ProcessPayment(account_id, amount, description) takes the steps of
\* CreateTransaction(account_id, PAYMENT, amount, description): the same validations
\* and lookup with the same outcome, the same UPDATE and INSERT, the same effect on the
\* tables, and the same transaction or error string in the response.
PaymentRequest(req) ==
    [account_id |-> req.account_id, operation_type |-> "PAYMENT", amount |-> req.amount,
     description |-> req.description]

ProcessPaymentEquivalence ==
    [][/\ \A h \in Handlers, req \in ProcessPaymentRequests, fault \in BOOLEAN :
             (calls[h].pc = "idle" /\ ProcessPayment(h, req, fault))
             => LET c == Lookup("CreateTransaction", PaymentRequest(req), fault)
                IN /\ calls'[h] = [c EXCEPT !.rpc = "ProcessPayment"]
                   /\ nextTxId' = IF c.dbTransaction.id # NoId THEN nextTxId + 1 ELSE nextTxId
                   /\ StoreUnchanged
       /\ \A h \in Handlers :
             LET c == calls[h]
                 d == calls'[h]
                 id == c.req.account_id
                 row == [c.dbTransaction EXCEPT !.amount = c.req.amount, !.status = "COMPLETED"]
             IN (c.rpc = "ProcessPayment" /\ (Updated(h) \/ Inserted(h)))
                => /\ d.rpc = c.rpc /\ d.req = c.req /\ c.req.operation_type = "PAYMENT"
                   /\ Updated(h) =>
                         IF d.err # "nil"
                         THEN /\ d.resp = [transaction |-> NoTransaction,
                                           error |-> "could not process payment"]
                              /\ StoreUnchanged
                         ELSE /\ d.pc = "insert"
                              /\ accounts'[id].balance = accounts[id].balance + c.req.amount
                              /\ transactions' = transactions
                   /\ Inserted(h) =>
                         IF d.err # "nil"
                         THEN /\ d.resp = [transaction |-> NoTransaction,
                                           error |-> "could not create transaction"]
                              /\ StoreUnchanged
                         ELSE /\ d.resp = [transaction |-> row, error |-> ""]
                              /\ transactions' = transactions \cup {row}
                              /\ accounts' = accounts]_vars

\* C15 witness: ProcessPayment has recorded and returned a PAYMENT transaction with an
\* empty description.
ProcessPaymentEquivalenceWitness ==
    \E h \in Handlers :
        /\ Returned(h) /\ calls[h].rpc = "ProcessPayment"
        /\ calls[h].resp.error = ""
        /\ calls[h].resp.transaction \in transactions
        /\ calls[h].resp.transaction.operation_type = "PAYMENT"
        /\ calls[h].resp.transaction.description = ""
        /\ calls[h].resp.transaction.amount > 0

\* the history request that has been answered
History == reply # NoReply /\ reply.rpc = "GetTransactionHistory"

Min(m, n) == IF m < n THEN m ELSE n

\* C16: GetTransactionHistory runs its queries with the requested limit when it is in
\* 1..100 and with 50 otherwise, and with the requested offset when it is >= 0 and with
\* 0 otherwise, and returns no more rows than that limit; with an empty account_id it
\* answers "account_id required" whatever the store would answer.
HistoryPaging ==
    History
    => IF reply.req.account_id = NoId
       THEN /\ reply.err = "nil"
            /\ reply.resp = [transactions |-> <<>>, total |-> 0, error |-> "account_id required"]
       ELSE /\ reply.limit = IF 1 <= reply.req.limit /\ reply.req.limit <= 100
                             THEN reply.req.limit ELSE 50
            /\ reply.offset = IF reply.req.offset >= 0 THEN reply.req.offset ELSE 0
            /\ Len(reply.resp.transactions) <= reply.limit
            /\ reply.err = "nil"
                  => Len(reply.resp.transactions)
                        = Min(reply.limit,
                              IF Cardinality(RowsOf(reply.req.account_id)) > reply.offset
                              THEN Cardinality(RowsOf(reply.req.account_id)) - reply.offset
                              ELSE 0)

\* C16 witness: a history asked with limit 150 and offset -1 was read with limit 50
\* from the first row on, and returned the account's two rows.
HistoryPagingWitness ==
    /\ History
    /\ reply.req.limit = 150 /\ reply.limit = 50
    /\ reply.req.offset = -1 /\ reply.offset = 0
    /\ Len(reply.resp.transactions) = 2

\* C17: a history answered without storage fault holds only rows of the account, each
\* once, newest first, as many as the effective limit allows after the effective offset,
\* the rows left out before them being the newest of the account and those left out
\* after them the oldest; its total is the number of the account's rows.
HistoryContent ==
    (History /\ reply.req.account_id # NoId /\ reply.err = "nil")
    => LET all == RowsOf(reply.req.account_id)
           n == Cardinality(all)
           limit == IF 1 <= reply.req.limit /\ reply.req.limit <= 100
                    THEN reply.req.limit ELSE 50
           offset == IF reply.req.offset >= 0 THEN reply.req.offset ELSE 0
           list == reply.resp.transactions
           got == {list[i] : i \in DOMAIN list}
       IN /\ reply.resp.error = ""
          /\ reply.resp.total = n
          /\ got \subseteq all
          /\ \A i, j \in DOMAIN list : i # j => list[i] # list[j]
          /\ \A i, j \in DOMAIN list : i < j => list[i].created_at >= list[j].created_at
          /\ Len(list) = Min(limit, IF n > offset THEN n - offset ELSE 0)
          /\ \E skipped \in SUBSET (all \ got) :
                /\ Cardinality(skipped) = Min(offset, n)
                /\ \A x \in skipped, y \in got : x.created_at >= y.created_at
                /\ \A x \in (all \ got) \ skipped, y \in got : x.created_at <= y.created_at

\* C17 witness: of an account's three rows, written in two different seconds, the
\* history with limit 1 and offset 1 holds one row, total 3, while the other account
\* has none of them.
HistoryContentWitness ==
    /\ History /\ reply.err = "nil"
    /\ reply.req.limit = 1 /\ reply.req.offset = 1
    /\ reply.resp.total = 3
    /\ Len(reply.resp.transactions) = 1
    /\ \E x, y \in RowsOf(reply.req.account_id) :
          /\ x.created_at > reply.resp.transactions[1].created_at
          /\ y.created_at = reply.resp.transactions[1].created_at
          /\ y # reply.resp.transactions[1]

\* C18: a history asked, without storage fault, for a non-empty account_id that matches
\* no stored account has no error, no transactions and total 0.
HistoryUnknownAccount ==
    (/\ History
     /\ reply.req.account_id # NoId
     /\ reply.req.account_id \notin DOMAIN accounts
     /\ reply.err = "nil")
    => reply.resp = [transactions |-> <<>>, total |-> 0, error |-> ""]

\* C18 witness: a transaction was recorded on an account, the account has since been
\* deleted, and its history has been answered empty.
HistoryUnknownAccountWitness ==
    \E h \in Handlers :
        /\ Returned(h) /\ calls[h].resp.error = ""
        /\ calls[h].req.account_id \notin DOMAIN accounts
        /\ History
        /\ reply.req.account_id = calls[h].req.account_id
        /\ reply.resp = [transactions |-> <<>>, total |-> 0, error |-> ""]
        /\ transactions # {}

\* the step in which a request of the account service, or a read, is answered
Answered(rpc) == reply = NoReply /\ reply' # NoReply /\ reply'.rpc = rpc

\* C19: DeleteAccount on a non-empty id that matches no account answers "account not
\* found" and changes nothing; on a stored id it answers success and removes the
\* account and every transaction row of it, so that GetAccount, GetBalance and
\* CreateTransaction on the id and GetTransaction on those rows' ids then report not
\* found; no row of a missing account is ever stored, and every later read of a missing
\* account or transaction reports not found (storage faults apart).
DeleteAccountCascade ==
    [][/\ Answered("DeleteAccount")
          => \A id \in {reply'.req.id} :
                /\ (id # NoId /\ id \notin DOMAIN accounts /\ reply'.err = "nil")
                      => /\ reply'.resp = [success |-> FALSE, error |-> "account not found"]
                         /\ StoreUnchanged
                /\ (id \in DOMAIN accounts /\ reply'.err = "nil")
                      => /\ reply'.resp = [success |-> TRUE, error |-> ""]
                         /\ DOMAIN accounts' = DOMAIN accounts \ {id}
                         /\ \A a \in DOMAIN accounts' : accounts'[a] = accounts[a]
                         /\ transactions' = transactions \ RowsOf(id)
                         /\ GetAccountResponse([id |-> id], FALSE)'.resp
                               = [account |-> NoAccount, error |-> "not found"]
                         /\ GetBalanceResponse([account_id |-> id], FALSE)'.resp
                               = [balance |-> 0, error |-> "account not found"]
                         /\ \A op \in validOperations :
                               Lookup("CreateTransaction",
                                      [account_id |-> id, operation_type |-> op,
                                       amount |-> 1, description |-> ""], FALSE)'.resp
                                  = [transaction |-> NoTransaction,
                                     error |-> "account not found"]
                         /\ \A t \in RowsOf(id) :
                               GetTransactionResponse([id |-> t.id], FALSE)'.resp
                                  = [transaction |-> NoTransaction, error |-> "not found"]
       /\ \A t \in transactions' : t.account_id \in DOMAIN accounts'
       /\ (Answered("GetAccount") /\ reply'.req.id # NoId
              /\ reply'.req.id \notin DOMAIN accounts /\ reply'.err # "ErrConnDone")
             => reply'.resp = [account |-> NoAccount, error |-> "not found"]
       /\ (Answered("GetBalance") /\ reply'.req.account_id # NoId
              /\ reply'.req.account_id \notin DOMAIN accounts /\ reply'.err # "ErrConnDone")
             => reply'.resp = [balance |-> 0, error |-> "account not found"]
       /\ (Answered("GetTransaction") /\ reply'.req.id # NoId
              /\ RowOf(reply'.req.id) = {} /\ reply'.err # "ErrConnDone")
             => reply'.resp = [transaction |-> NoTransaction, error |-> "not found"]
       /\ \A h \in Handlers :
             (Started(h) /\ calls'[h].req.account_id \notin DOMAIN accounts
                 /\ calls'[h].err # "ErrConnDone")
             => calls'[h].resp = [transaction |-> NoTransaction,
                                  error |-> "account not found"]]_vars

\* C19 witness: a transaction was recorded on an account, DeleteAccount has since
\* removed the account, and GetTransaction with the transaction's id has answered
\* "not found".
DeleteAccountCascadeWitness ==
    \E h \in Handlers :
        /\ Returned(h) /\ calls[h].resp.error = ""
        /\ calls[h].req.account_id \notin DOMAIN accounts
        /\ reply # NoReply
        /\ reply.rpc = "GetTransaction"
        /\ reply.req.id = calls[h].resp.transaction.id
        /\ reply.resp = [transaction |-> NoTransaction, error |-> "not found"]

\* C20 (the claim as stated): UpdateAccount on a non-empty id that matches no stored
\* account, no statement of it meeting a storage fault, answers with the error
\* "not found".
UpdateMissingAccount ==
    (/\ reply # NoReply
     /\ reply.rpc = "UpdateAccount"
     /\ reply.req.id # NoId
     /\ reply.req.id \notin DOMAIN accounts
     /\ reply.err # "ErrConnDone")
    => reply.resp.error = "not found"

\* C21: UpdateAccount on a stored account changes nothing but that account's
\* document_number, account_type and updated_at: a field supplied empty keeps its old
\* value and a field that changes takes the supplied non-empty value; id, balance,
\* created_at, every other account and every transaction row stay as they were; when
\* the store accepts the update every non-empty supplied field is written and
\* updated_at is the current time, and the account returned by the read that follows
\* is the stored one.
PartialUpdate ==
    [][(Answered("UpdateAccount") /\ reply'.req.id \in DOMAIN accounts)
          => \A req \in {reply'.req}, resp \in {reply'.resp}, err \in {reply'.err} :
                /\ DOMAIN accounts' = DOMAIN accounts
                /\ \A a \in DOMAIN accounts \ {req.id} : accounts'[a] = accounts[a]
                /\ transactions' = transactions
                /\ accounts'[req.id].id = accounts[req.id].id
                /\ accounts'[req.id].balance = accounts[req.id].balance
                /\ accounts'[req.id].created_at = accounts[req.id].created_at
                /\ req.document_number = ""
                      => accounts'[req.id].document_number = accounts[req.id].document_number
                /\ req.account_type = ""
                      => accounts'[req.id].account_type = accounts[req.id].account_type
                /\ accounts'[req.id].document_number # accounts[req.id].document_number
                      => accounts'[req.id].document_number = req.document_number
                /\ accounts'[req.id].account_type # accounts[req.id].account_type
                      => accounts'[req.id].account_type = req.account_type
                /\ resp.error = ""
                      => /\ req.document_number # ""
                            => accounts'[req.id].document_number = req.document_number
                         /\ req.account_type # ""
                            => accounts'[req.id].account_type = req.account_type
                         /\ accounts'[req.id].updated_at = now
                         /\ err = "nil" => resp.account = accounts'[req.id]
      ]_vars

\* an account that has received a payment, stored next to another one, has been given
\* a new document number at a later time with its account type left out
PartialUpdateWitness ==
    /\ reply # NoReply
    /\ reply.rpc = "UpdateAccount"
    /\ reply.err = "nil"
    /\ reply.resp.error = ""
    /\ reply.req.document_number = "222"
    /\ reply.req.account_type = ""
    /\ reply.req.id \in DOMAIN accounts
    /\ LET account == accounts[reply.req.id]
       IN /\ account.document_number = "222"
          /\ account.account_type = "CHECKING"
          /\ account.updated_at > account.created_at
          /\ account.balance # initial[reply.req.id]
          /\ reply.resp.account = account
    /\ DOMAIN accounts # {reply.req.id}
    /\ RowsOf(reply.req.id) # {}

\* C22: CreateAccount with an empty document_number or an empty account_type answers
\* "missing required fields" and leaves the store as it was; otherwise it answers either
\* with no error, and then exactly one account has been added, under an id no stored
\* account had, with the supplied initial balance, document number and account type and
\* with created_at equal to updated_at, the other accounts being untouched, or with
\* "could not create account", and then no account has been added.
CreateAccountResult ==
    [][Answered("CreateAccount")
          => \A req \in {reply'.req}, resp \in {reply'.resp} :
                /\ transactions' = transactions
                /\ IF req.document_number = "" \/ req.account_type = ""
                   THEN /\ resp.error = "missing required fields"
                        /\ accounts' = accounts
                   ELSE \/ /\ resp.error = ""
                           /\ reply'.err = "nil"
                           /\ resp.account.id \notin DOMAIN accounts
                           /\ DOMAIN accounts' = DOMAIN accounts \cup {resp.account.id}
                           /\ \A a \in DOMAIN accounts : accounts'[a] = accounts[a]
                           /\ accounts'[resp.account.id] =
                                 [id |-> resp.account.id,
                                  document_number |-> req.document_number,
                                  account_type |-> req.account_type,
                                  balance |-> req.initial_balance,
                                  created_at |-> now, updated_at |-> now]
                           /\ resp.account = accounts'[resp.account.id]
                        \/ /\ resp.error = "could not create account"
                           /\ reply'.err # "nil"
                           /\ accounts' = accounts
      ]_vars

\* a second account has been created, at a later time, with an initial balance, and
\* before it a request without an initial balance gave an account with balance 0
CreateAccountResultWitness ==
    /\ reply # NoReply
    /\ reply.rpc = "CreateAccount"
    /\ reply.resp.error = ""
    /\ reply.req.initial_balance = 1
    /\ reply.resp.account.id \in DOMAIN accounts
    /\ accounts[reply.resp.account.id].balance = 1
    /\ accounts[reply.resp.account.id].created_at = 1
    /\ accounts[reply.resp.account.id].updated_at = 1
    /\ \E a \in DOMAIN accounts \ {reply.resp.account.id} :
          /\ initial[a] = 0
          /\ accounts[a].created_at = 0

\* C28: no two stored accounts ever have the same document_number; a CreateAccount
\* that passes the required-fields validation with a document_number some stored
\* account has answers "could not create account", an UpdateAccount on a stored account
\* with a document_number some other stored account has answers "could not update
\* account", and each leaves both tables as they were.
UniqueDocumentNumber ==
    [][/\ \A a, b \in DOMAIN accounts' :
             accounts'[a].document_number = accounts'[b].document_number => a = b
       /\ (/\ Answered("CreateAccount")
           /\ reply'.req.account_type # ""
           /\ \E a \in DOMAIN accounts :
                 accounts[a].document_number = reply'.req.document_number)
             => /\ reply'.resp.error = "could not create account"
                /\ StoreUnchanged
       /\ (/\ Answered("UpdateAccount")
           /\ reply'.req.id \in DOMAIN accounts
           /\ \E a \in DOMAIN accounts \ {reply'.req.id} :
                 accounts[a].document_number = reply'.req.document_number)
             => /\ reply'.resp.error = "could not update account"
                /\ StoreUnchanged
      ]_vars

\* an UpdateAccount asking for the document number of the other stored account has
\* been refused by the UNIQUE constraint
UniqueDocumentNumberWitness ==
    /\ reply # NoReply
    /\ reply.rpc = "UpdateAccount"
    /\ reply.err = "unique_violation"
    /\ reply.resp.error = "could not update account"
    /\ reply.req.id \in DOMAIN accounts
    /\ accounts[reply.req.id].document_number # reply.req.document_number
    /\ \E a \in DOMAIN accounts \ {reply.req.id} :
          accounts[a].document_number = reply.req.document_number

\* the error messages of a storage failure before the INSERT
BeforeInsertErrors ==
    {"database error", "could not process payment", "could not process transaction"}

\* C23: when the account lookup of CreateTransaction fails for another reason than a
\* missing row the response is "database error"; when the balance UPDATE fails it is
\* "could not process payment" for PAYMENT and "could not process transaction" for a
\* debit type; in each case the failing step ends the request with no transaction in
\* the response and both tables as they were, and all that follows is the return of
\* that response: no statement is run again, no row of the request is stored and the
\* balance is the one the request found.
StorageFaultBeforeInsert ==
    [][\A h \in Handlers :
          /\ (Started(h) /\ calls'[h].err \notin {"nil", "ErrNoRows"})
                => /\ calls'[h].pc = "done"
                   /\ calls'[h].resp = Response(calls'[h].rpc,
                                          [transaction |-> NoTransaction,
                                           error |-> "database error"])
                   /\ StoreUnchanged
          /\ (Updated(h) /\ calls'[h].err # "nil")
                => /\ calls'[h].pc = "done"
                   /\ calls'[h].resp = Response(calls'[h].rpc,
                                          [transaction |-> NoTransaction,
                                           error |-> IF calls[h].req.operation_type = "PAYMENT"
                                                     THEN "could not process payment"
                                                     ELSE "could not process transaction"])
                   /\ StoreUnchanged
                   /\ calls[h].req.account_id \in DOMAIN accounts
                         => accounts'[calls[h].req.account_id].balance = calls[h].account.balance
          /\ (Returned(h) /\ calls[h].resp.error \in BeforeInsertErrors)
                => /\ StoreUnchanged
                   /\ calls'[h] \in {calls[h], IdleCall}
                   /\ \A t \in transactions' : t.id # calls[h].dbTransaction.id
      ]_vars

\* the balance UPDATE of a withdrawal has failed: the request is over, the balance is
\* the one that was read and no row is stored
StorageFaultBeforeInsertWitness ==
    \E h \in Handlers :
        /\ Returned(h)
        /\ calls[h].req.operation_type = "WITHDRAWAL"
        /\ calls[h].amount = -1
        /\ calls[h].err = "ErrConnDone"
        /\ calls[h].resp.error = "could not process transaction"
        /\ calls[h].req.account_id \in DOMAIN accounts
        /\ accounts[calls[h].req.account_id].balance = calls[h].account.balance
        /\ transactions = {}

\* the request with the opposite amount
Mirror(req) == [req EXCEPT !.amount = -@]

\* C24: a CreateTransaction of a debit type with amount a and one with amount -a, taken
\* from the same state of the store with the same storage fault, leave the handler with
\* the same response or the same signed amount -|a| to apply, read from the same
\* account; the UPDATE then changes the balance by -|a| and the INSERT stores and
\* returns the amount -|a|, so both requests have one outcome; an amount that is
\* already negative is applied as it is.
DebitSignNormalization ==
    [][\A h \in Handlers :
          calls'[h].req.operation_type \in DebitOperations
          => LET req == calls'[h].req
                 id == req.account_id
             IN /\ Started(h)
                      => \A fault \in BOOLEAN :
                            calls'[h] = Lookup(calls'[h].rpc, req, fault)
                            => LET other == Lookup(calls'[h].rpc, Mirror(req), fault)
                               IN /\ other.pc = calls'[h].pc
                                  /\ other.err = calls'[h].err
                                  /\ other.resp = calls'[h].resp
                                  /\ other.account = calls'[h].account
                                  /\ other.amount = calls'[h].amount
                                  /\ other.dbTransaction.id = calls'[h].dbTransaction.id
                                  /\ calls'[h].pc = "update"
                                        => /\ calls'[h].amount = -Abs(req.amount)
                                           /\ req.amount < 0 => calls'[h].amount = req.amount
                /\ (Updated(h) /\ calls'[h].err = "nil" /\ id \in DOMAIN accounts)
                      => /\ accounts'[id].balance = accounts[id].balance - Abs(req.amount)
                         /\ calls'[h].dbTransaction.amount = -Abs(req.amount)
                /\ (Inserted(h) /\ calls'[h].err = "nil")
                      => /\ calls'[h].resp.transaction.amount = -Abs(req.amount)
                         /\ \E t \in transactions' \ transactions :
                               /\ transactions' = transactions \cup {t}
                               /\ t.id = calls'[h].resp.transaction.id
                               /\ t.amount = -Abs(req.amount)
      ]_vars

\* a withdrawal asked with the amount -1 has taken 1 from the balance and is stored
\* with the amount -1
DebitSignNormalizationWitness ==
    \E h \in Handlers :
        /\ Returned(h)
        /\ calls[h].req.operation_type = "WITHDRAWAL"
        /\ calls[h].req.amount = -1
        /\ calls[h].resp.error = ""
        /\ calls[h].resp.transaction.amount = -1
        /\ calls[h].req.account_id \in DOMAIN accounts
        /\ accounts[calls[h].req.account_id].balance = calls[h].account.balance - 1
        /\ \E t \in transactions : t.id = calls[h].resp.transaction.id /\ t.amount = -1

\* C25: every stored transaction row of type PAYMENT has an amount above zero and every
\* stored row of a debit type has an amount of zero or below, whatever sign the amount
\* of the request had.
SignOfStoredAmounts ==
    \A t \in transactions :
        /\ t.operation_type \in validOperations
        /\ t.operation_type = "PAYMENT" => t.amount > 0
        /\ t.operation_type \in DebitOperations => t.amount <= 0

\* a payment is stored with its positive amount, and a debit asked with a positive
\* amount has just been stored with a negative one
SignOfStoredAmountsWitness ==
    /\ \E t \in transactions : t.operation_type = "PAYMENT" /\ t.amount = 1
    /\ \E h \in Handlers :
          /\ Returned(h)
          /\ calls[h].req.operation_type \in DebitOperations
          /\ calls[h].req.amount = 1
          /\ calls[h].resp.error = ""
          /\ \E t \in transactions :
                /\ t.id = calls[h].resp.transaction.id
                /\ t.operation_type = calls[h].req.operation_type
                /\ t.amount = -1

\* C26: a stored transaction row keeps every field in every later state; it leaves the
\* table only in the step of a successful DeleteAccount on its account_id; no step of a
\* CreateTransaction or ProcessPayment request removes or alters a row, and a
\* GetTransaction or GetTransactionHistory changes nothing in the store.
AppendOnlyLedger ==
    [][/\ \A t \in transactions, u \in transactions' : u.id = t.id => u = t
       /\ \A t \in transactions \ transactions' :
             /\ Answered("DeleteAccount")
             /\ reply'.req.id = t.account_id
             /\ reply'.resp.success
             /\ t.account_id \in DOMAIN accounts
             /\ t.account_id \notin DOMAIN accounts'
       /\ (\E h \in Handlers : calls'[h] # calls[h]) => transactions \subseteq transactions'
       /\ (Answered("GetTransaction") \/ Answered("GetTransactionHistory"))
             => ledger' = ledger
      ]_vars

\* a row recorded on one account is still stored after a later transaction on another
\* account and the deletion of that account, which took the later row with it
AppendOnlyLedgerWitness ==
    /\ reply # NoReply
    /\ reply.rpc = "DeleteAccount"
    /\ reply.resp.success
    /\ \E h \in Handlers :
          /\ Returned(h)
          /\ calls[h].resp.error = ""
          /\ calls[h].req.account_id = reply.req.id
          /\ RowOf(calls[h].resp.transaction.id) = {}
          /\ \E t \in transactions :
                /\ t.id < calls[h].resp.transaction.id
                /\ t.account_id # reply.req.id
                /\ t.account_id \in DOMAIN accounts

\* the accounts stored before and after the step whose balance the step has changed
BalanceChanged ==
    {a \in DOMAIN accounts \cap DOMAIN accounts' : accounts'[a].balance # accounts[a].balance}

\* C27: a step that answers GetAccount, GetBalance, UpdateAccount, GetTransaction or
\* GetTransactionHistory, and a step in which CreateTransaction refuses its request,
\* change the balance of no account; a step that changes the balance of a stored
\* account is the balance UPDATE of a CreateTransaction or ProcessPayment request on
\* that account, adds the request's signed amount to it and changes the balance of no
\* other account.
BalanceChangedByTransactions ==
    [][/\ (\E rpc \in {"GetAccount", "GetBalance", "UpdateAccount", "GetTransaction",
                       "GetTransactionHistory"} : Answered(rpc))
             => BalanceChanged = {}
       /\ \A h \in Handlers :
             (Started(h) /\ calls'[h].pc = "done") => BalanceChanged = {}
       /\ \A a \in BalanceChanged :
             /\ BalanceChanged = {a}
             /\ \E h \in Handlers :
                   /\ Updated(h)
                   /\ calls[h].rpc \in {"CreateTransaction", "ProcessPayment"}
                   /\ calls[h].req.account_id = a
                   /\ calls'[h].err = "nil"
                   /\ accounts'[a].balance = accounts[a].balance + calls[h].amount
                   /\ \A g \in Handlers \ {h} : calls'[g] = calls[g]
      ]_vars

\* an UpdateAccount has been answered for an account whose balance a payment had
\* raised, next to another account, and the balance is still the raised one
BalanceChangedByTransactionsWitness ==
    /\ reply # NoReply
    /\ reply.rpc = "UpdateAccount"
    /\ reply.resp.error = ""
    /\ reply.req.id \in DOMAIN accounts
    /\ accounts[reply.req.id].account_type = "SAVINGS"
    /\ accounts[reply.req.id].balance = initial[reply.req.id] + 1
    /\ \E t \in RowsOf(reply.req.id) : t.amount = 1
    /\ \E a \in DOMAIN accounts \ {reply.req.id} : accounts[a].balance = initial[a]

\* C29: the account_id of every stored transaction row is the id of a stored account,
\* with DeleteAccount interleaved with the statements of the requests; the balance
\* UPDATE of a request whose account has been deleted since its lookup changes no row
\* and reports no error, so the request goes on to its INSERT; an INSERT for an account
\* that is no longer stored is refused, the request answers "could not create
\* transaction" and no row is stored.
ReferentialIntegrity ==
    [][/\ \A t \in transactions' : t.account_id \in DOMAIN accounts'
       /\ \A h \in Handlers :
             LET id == calls[h].req.account_id
             IN /\ (Updated(h) /\ id \notin DOMAIN accounts)
                      => \/ calls'[h].err = "ErrConnDone"
                         \/ /\ calls'[h].pc = "insert"
                            /\ calls'[h].err = "nil"
                            /\ ~calls'[h].applied
                            /\ StoreUnchanged
                /\ (Inserted(h) /\ id \notin DOMAIN accounts)
                      => /\ calls'[h].pc = "done"
                         /\ calls'[h].err \in {"foreign_key_violation", "ErrConnDone"}
                         /\ calls'[h].resp = Response(calls[h].rpc,
                                                [transaction |-> NoTransaction,
                                                 error |-> "could not create transaction"])
                         /\ StoreUnchanged
                         /\ \A t \in transactions' : t.account_id # id
      ]_vars

\* a request found its account, the account was deleted before the request's UPDATE,
\* which changed nothing, and the INSERT was refused by the foreign key
ReferentialIntegrityWitness ==
    \E h \in Handlers :
        /\ Returned(h)
        /\ calls[h].account.id = calls[h].req.account_id
        /\ calls[h].req.account_id \notin DOMAIN accounts
        /\ ~calls[h].applied
        /\ calls[h].err = "foreign_key_violation"
        /\ calls[h].resp.error = "could not create transaction"
        /\ \A t \in transactions : t.account_id # calls[h].req.account_id

\* handler g is about to run the UPDATE of a debit that passed the sufficiency check
\* against the balance handler h's debit read as well, h's UPDATE has been applied in
\* between, and the two debits together exceed the balance they read
Overdrawing(h, g) ==
    /\ h # g
    /\ calls[g].pc = "update"
    /\ calls[g].dbTransaction.id \in calls[h].overtook
    /\ calls[h].applied
    /\ calls[h].req.operation_type \in DebitOperations
    /\ calls[g].req.operation_type \in DebitOperations
    /\ calls[g].req.account_id = calls[h].req.account_id
    /\ calls[h].req.account_id \in DOMAIN accounts
    /\ calls[h].account.balance = calls[g].account.balance
    /\ calls[h].account.balance + calls[h].amount + calls[g].amount < 0

\* C30: when two debits on one account have both passed the sufficiency check against
\* the same balance, together exceed it, and the first one's UPDATE has been applied,
\* the balance is the one read plus the first amount, and the second one's UPDATE is
\* refused: its request ends with "could not process transaction", the store is not
\* changed, so the balance stays where the first request left it, and no row of the
\* second request is stored.
ConcurrentOverdraw ==
    [][\A h, g \in Handlers :
          Overdrawing(h, g)
          => LET a == calls[h].req.account_id
             IN /\ accounts[a].balance = calls[h].account.balance + calls[h].amount
                /\ accounts[a].balance >= 0
                /\ Updated(g)
                      => /\ calls'[g].pc = "done"
                         /\ calls'[g].err \in {"check_violation", "ErrConnDone"}
                         /\ calls'[g].resp = [transaction |-> NoTransaction,
                                              error |-> "could not process transaction"]
                         /\ StoreUnchanged
                         /\ accounts'[a].balance = calls[h].account.balance + calls[h].amount
                         /\ RowOf(calls[g].dbTransaction.id)' = {}
      ]_vars

\* the second of two withdrawals of the whole balance has been refused by the CHECK
\* after the first was applied
ConcurrentOverdrawWitness ==
    \E h, g \in Handlers :
        /\ h # g
        /\ Returned(g)
        /\ calls[g].dbTransaction.id \in calls[h].overtook
        /\ calls[h].applied /\ ~calls[g].applied
        /\ calls[h].amount = -1 /\ calls[g].amount = -1
        /\ calls[h].account.balance = 1 /\ calls[g].account.balance = 1
        /\ calls[g].req.account_id = calls[h].req.account_id
        /\ calls[g].err = "check_violation"
        /\ calls[g].resp.error = "could not process transaction"
        /\ calls[h].req.account_id \in DOMAIN accounts
        /\ accounts[calls[h].req.account_id].balance = 0
        /\ RowOf(calls[g].dbTransaction.id) = {}

====
